---- MODULE Spec2Model ----
(***************************************************************************)
(* Model of manifesto-cli: the module registry and dependency resolver     *)
(* (internal/config), the marker-based source injector (internal/scaffold  *)
(* wire.go) and the init / add / install operations that drive them.       *)
(*                                                                         *)
(* A file's text is a sequence of lexical tokens (a tab, a newline, a      *)
(* quote, a placeholder, a path segment, the rest of a line).  The tokens  *)
(* are cut so that every string the injector searches for (markers, guard  *)
(* strings, import lines, placeholders) is a whole number of tokens in     *)
(* every text it can occur in; strings.Contains is then contiguous         *)
(* sub-sequence and strings.Replace(.., 1) replaces the first occurrence.  *)
(***************************************************************************)
EXTENDS Integers, Sequences, FiniteSets, TLC

-----------------------------------------------------------------------------
(* Text primitives (Go package strings, as used by wire.go)                *)

TAB == "\t"
NL == "\n"
QUOTE == "\""
OPEN == "{"
CLOSE == "}"

\* strings.Index: position of the first occurrence of needle, 0 where Go gives -1.
\* The empty needle is found at the start of every text.
Index(text, needle) ==
  LET First(hits) == IF hits = {} THEN 0 ELSE CHOOSE i \in hits : \A j \in hits : i <= j
  IN IF Len(needle) = 0 THEN 1
     ELSE First({i \in 1..(Len(text) - Len(needle) + 1) :
                   SubSeq(text, i, i + Len(needle) - 1) = needle})

\* strings.Contains
Contains(text, needle) == Index(text, needle) # 0

\* strings.Replace(text, old, new, 1) for a non-empty old
Replace1(text, old, new) ==
  LET At(i) == IF i = 0 THEN text
               ELSE SubSeq(text, 1, i - 1) \o new \o SubSeq(text, i + Len(old), Len(text))
  IN At(Index(text, old))

\* number of (possibly overlapping) occurrences of needle in text
Count(text, needle) ==
  Cardinality({i \in 1..(Len(text) - Len(needle) + 1) :
                 SubSeq(text, i, i + Len(needle) - 1) = needle})

\* strings.HasPrefix, strings.HasSuffix
HasPrefix(s, prefix) == Len(prefix) <= Len(s) /\ SubSeq(s, 1, Len(prefix)) = prefix
HasSuffix(s, suffix) ==
  Len(suffix) <= Len(s) /\ SubSeq(s, Len(s) - Len(suffix) + 1, Len(s)) = suffix

\* a rewrite that stops after the first occurrence
ReplaceFirstOnly(text, old, new) == Replace1(text, old, new)

\* strings.ReplaceAll for a non-empty old: the occurrences found from left to
\* right, none overlapping the one before it
RECURSIVE ReplaceAll(_, _, _)
ReplaceAll(text, old, new) ==
  LET At(i) == IF i = 0 THEN text
               ELSE SubSeq(text, 1, i - 1) \o new
                      \o ReplaceAll(SubSeq(text, i + Len(old), Len(text)), old, new)
  IN At(Index(text, old))

IsSpace(tok) == tok \in {TAB, NL, " "}

\* strings.TrimSpace
RECURSIVE TrimLeft(_)
TrimLeft(s) == IF s # <<>> /\ IsSpace(Head(s)) THEN TrimLeft(Tail(s)) ELSE s

RECURSIVE TrimRight(_)
TrimRight(s) ==
  IF s # <<>> /\ IsSpace(s[Len(s)]) THEN TrimRight(SubSeq(s, 1, Len(s) - 1)) ELSE s

TrimSpace(s) == TrimRight(TrimLeft(s))

\* strings.Split(s, "\n"): the lines of s (one empty line for the empty text)
RECURSIVE Split(_)
Split(s) ==
  LET At(i) == IF i = 0 THEN <<s>>
               ELSE <<SubSeq(s, 1, i - 1)>> \o Split(SubSeq(s, i + 1, Len(s)))
  IN At(Index(s, <<NL>>))

\* strings.Join(lines, "\n")
RECURSIVE Join(_)
Join(lines) ==
  IF Len(lines) = 0 THEN <<>>
  ELSE IF Len(lines) = 1 THEN lines[1]
  ELSE lines[1] \o <<NL>> \o Join(Tail(lines))

\* the idiom strings.TrimSpace(strings.Split(strings.TrimSpace(s), "\n")[0])
FirstLine(s) == TrimSpace(Split(TrimSpace(s))[1])

-----------------------------------------------------------------------------
(* The wiring registry (config.WireableModuleRegistry).  A fragment is the  *)
(* token sequence of its raw string literal; the empty string is <<>>.     *)
(* Long fragment bodies keep their first line, every line that carries a   *)
(* placeholder and their last line; the other lines hold no marker, no     *)
(* guard string and no placeholder and are left out.                       *)

GOMODULE == "{{GOMODULE}}"
PROJECTNAME == "{{PROJECTNAME}}"

\* the comment rule that opens and closes every Makefile section header
BANNER == "# ============================================================================"

\* the registration line shared by the jobx->notifx and notifx->jobx bridges
BridgeRegisterLine ==
  "c.Dispatcher.Register(\"notifx:send_email\", notifx.SendEmailHandler(c.NotificationService))"

NoFragments ==
  [ConfigFields |-> <<>>, ConfigLoads |-> <<>>,
   ContainerImports |-> <<>>, ContainerFields |-> <<>>, ModuleInit |-> <<>>,
   BackgroundStart |-> <<>>, ContainerHelpers |-> <<>>,
   ServerImports |-> <<>>, PublicRoutes |-> <<>>, RouteRegistration |-> <<>>,
   AuthMiddleware |-> <<>>,
   MakefileEnv |-> <<>>, MakefileEnvDisplay |-> <<>>,
   GoDeps |-> <<>>, RequiredModules |-> <<>>, Bridges |-> <<>>]

Wireable_fsx ==
  [NoFragments EXCEPT
    !.RequiredModules = <<"fsx">>,
    !.ContainerImports =
      <<TAB, QUOTE, GOMODULE, "/pkg/fsx", QUOTE, NL,
        TAB, QUOTE, GOMODULE, "/pkg/fsx", "/fsxlocal", QUOTE, NL,
        TAB, QUOTE, GOMODULE, "/pkg/fsx", "/fsxs3", QUOTE, NL,
        TAB, "awsConfig ", QUOTE, "github.com/aws/aws-sdk-go-v2/config", QUOTE, NL,
        TAB, QUOTE, "github.com/aws/aws-sdk-go-v2/service/s3", QUOTE>>,
    !.ContainerFields =
      <<TAB, "FileSystem fsx.FileSystem", NL, TAB, "S3Client   *s3.Client">>,
    !.ModuleInit = <<TAB, "c.initFileStorage()">>,
    !.ContainerHelpers =
      <<"func (c *Container) initFileStorage() ", OPEN, NL,
        TAB, TAB, "awsBucket := getEnv(\"AWS_BUCKET\", \"", PROJECTNAME, "-uploads\")", NL,
        CLOSE>>,
    !.MakefileEnv =
      <<BANNER, NL,
        "# Environment Variables - Storage Configuration", NL,
        BANNER, NL, NL,
        "export STORAGE_MODE = local", NL,
        "export AWS_BUCKET = ", PROJECTNAME, "-uploads">>,
    !.MakefileEnvDisplay =
      <<"@echo \"Storage:\"", NL,
        "@echo \"  MODE:              $(STORAGE_MODE)\"", NL,
        "@echo \"\"">>,
    !.GoDeps = <<"github.com/aws/aws-sdk-go-v2/config",
                 "github.com/aws/aws-sdk-go-v2/service/s3">>]

Wireable_asyncx == [NoFragments EXCEPT !.RequiredModules = <<"asyncx">>]

Wireable_ai == [NoFragments EXCEPT !.RequiredModules = <<"ai", "fsx">>]

Wireable_jobx ==
  [NoFragments EXCEPT
    !.RequiredModules = <<"jobx", "asyncx">>,
    !.ContainerImports = <<TAB, QUOTE, GOMODULE, "/pkg/asyncx", QUOTE>>,
    !.ContainerFields = <<TAB, "Dispatcher *asyncx.Dispatcher">>,
    !.ModuleInit =
      <<TAB, "c.Dispatcher = asyncx.NewDispatcher(c.Redis, logx.DefaultLogger())">>,
    !.BackgroundStart = <<TAB, "c.Dispatcher.Start(ctx)">>,
    !.Bridges =
      <<[RequiresModule |-> "notifx",
         ContainerImports |-> <<TAB, QUOTE, GOMODULE, "/pkg/notifx", QUOTE>>,
         ContainerInit |-> <<TAB, BridgeRegisterLine>>]>>]

Wireable_notifx ==
  [NoFragments EXCEPT
    !.RequiredModules = <<"notifx">>,
    !.ConfigFields = <<TAB, "Email EmailConfig">>,
    !.ConfigLoads = <<TAB, "cfg.Email = loadEmailConfig()">>,
    !.ContainerImports =
      <<TAB, QUOTE, GOMODULE, "/pkg/notifx", QUOTE, NL,
        TAB, QUOTE, GOMODULE, "/pkg/notifx", "/notifxses", QUOTE>>,
    !.ContainerFields = <<TAB, "NotificationService notifx.NotificationService">>,
    !.ModuleInit =
      <<TAB, "c.NotificationService = notifxses.NewSESNotifier(c.Config.Email.AWSRegion)">>,
    !.MakefileEnv =
      <<BANNER, NL,
        "# Environment Variables - Email Configuration", NL,
        BANNER, NL, NL,
        "export EMAIL_PROVIDER = ses", NL,
        "export EMAIL_FROM_ADDRESS = noreply@", PROJECTNAME, ".com", NL,
        "export EMAIL_FROM_NAME = ", PROJECTNAME, NL,
        "export AWS_SES_REGION = us-east-1">>,
    !.MakefileEnvDisplay =
      <<"@echo \"Email:\"", NL,
        "@echo \"  PROVIDER:          $(EMAIL_PROVIDER)\"", NL,
        "@echo \"\"">>,
    !.GoDeps = <<"github.com/aws/aws-sdk-go-v2/service/sesv2">>,
    !.Bridges =
      <<[RequiresModule |-> "jobx",
         ContainerImports |-> <<TAB, QUOTE, GOMODULE, "/pkg/notifx", QUOTE>>,
         ContainerInit |-> <<TAB, BridgeRegisterLine>>]>>]

Wireable_iam ==
  [NoFragments EXCEPT
    !.RequiredModules = <<"iam", "migrations">>,
    !.ConfigFields =
      <<TAB, "JWT           JWTConfig", NL, TAB, "Tenant        TenantConfig">>,
    !.ConfigLoads =
      <<TAB, "cfg.JWT = loadJWTConfig()", NL, TAB, "cfg.Tenant = loadTenantConfig()">>,
    !.ContainerImports = <<TAB, QUOTE, GOMODULE, "/pkg/iam", "/iamcontainer", QUOTE>>,
    !.ContainerFields = <<TAB, "IAM *iamcontainer.Container">>,
    !.ModuleInit =
      <<TAB, "c.IAM = iamcontainer.New(iamcontainer.Deps", OPEN, NL,
        TAB, TAB, "OTPNotifier: NewConsoleNotifier(),", NL,
        TAB, CLOSE, ")">>,
    !.BackgroundStart = <<TAB, "c.IAM.StartBackgroundServices(ctx)">>,
    !.ContainerHelpers =
      <<"// ConsoleNotifier implements the NotificationService interface", NL,
        "type ConsoleNotifier struct", OPEN, CLOSE, NL,
        CLOSE>>,
    !.MakefileEnv =
      <<BANNER, NL,
        "# Environment Variables - JWT Configuration", NL,
        BANNER, NL, NL,
        "export JWT_ISSUER = ", PROJECTNAME, NL,
        "export JWT_AUDIENCE = ", PROJECTNAME, "-api,", PROJECTNAME, "-web", NL, NL,
        BANNER, NL,
        "# Environment Variables - Tenant Configuration", NL,
        BANNER, NL, NL,
        "export TENANT_MAX_USERS_ENTERPRISE = 500">>,
    !.MakefileEnvDisplay =
      <<"@echo \"JWT:\"", NL,
        "@echo \"  ISSUER:            $(JWT_ISSUER)\"", NL,
        "@echo \"\"">>,
    !.PublicRoutes =
      <<TAB, "// IAM Routes", NL,
        TAB, "container.IAM.OAuthHandlers.RegisterRoutes(app)", NL,
        TAB, "logx.Info(\"  > Passwordless auth routes registered\")">>,
    !.AuthMiddleware = <<"container.IAM.UnifiedAuthMiddleware.Authenticate()">>,
    !.RouteRegistration =
      <<TAB, "container.IAM.APIKeyHandlers.RegisterRoutes(protected, container.IAM.UnifiedAuthMiddleware)", NL,
        TAB, "logx.Info(\"  > Invitation routes registered\")">>]

WireableNames == {"fsx", "asyncx", "ai", "jobx", "notifx", "iam"}

WireableModuleRegistry ==
  [n \in WireableNames |->
     CASE n = "fsx" -> Wireable_fsx
       [] n = "asyncx" -> Wireable_asyncx
       [] n = "ai" -> Wireable_ai
       [] n = "jobx" -> Wireable_jobx
       [] n = "notifx" -> Wireable_notifx
       [] n = "iam" -> Wireable_iam]

IsWireableModule(name) == name \in DOMAIN WireableModuleRegistry

-----------------------------------------------------------------------------
(* The project's files.  fs maps a path to [exists, text].                 *)

ConfigFile == "pkg/config/config.go"
ContainerFile == "cmd/container.go"
ServerFile == "cmd/server.go"
MakefilePath == "Makefile"
TargetFiles == {ConfigFile, ContainerFile, ServerFile, MakefilePath}

MkConfigFields == "// manifesto:config-fields"
MkConfigLoads == "// manifesto:config-loads"
MkContainerImports == "// manifesto:container-imports"
MkContainerFields == "// manifesto:container-fields"
MkModuleInit == "// manifesto:module-init"
MkBackgroundStart == "// manifesto:background-start"
MkContainerHelpers == "// manifesto:container-helpers"
MkServerImports == "// manifesto:server-imports"
MkPublicRoutes == "// manifesto:public-routes"
MkRouteRegistration == "// manifesto:route-registration"
MkEnvConfig == "# manifesto:env-config"
MkEnvDisplay == "# manifesto:env-display"

\* the marker tokens each target file carries
Markers(f) ==
  CASE f = ConfigFile -> {MkConfigFields, MkConfigLoads}
    [] f = ContainerFile -> {MkContainerImports, MkContainerFields, MkModuleInit,
                             MkBackgroundStart, MkContainerHelpers}
    [] f = ServerFile -> {MkServerImports, MkPublicRoutes, MkRouteRegistration}
    [] f = MakefilePath -> {MkEnvConfig, MkEnvDisplay}

Absent == [exists |-> FALSE, text |-> <<>>]
File(text) == [exists |-> TRUE, text |-> text]

\* os.WriteFile(path, text): creates or overwrites
WriteFile(fs, path, text) == [fs EXCEPT ![path] = File(text)]

Ok(fs) == [fs |-> fs, err |-> ""]

\* an error return that loses its error
FailIgnored(fs, msg) == [fs |-> fs, err |-> ""]

\* `return fmt.Errorf(msg, err)`: nothing written, the error reported
Fail(fs, msg) == [fs |-> fs, err |-> msg]

\* a replacement that does not write the marker back
InjectDropMarker(text, fragment, sep, marker) ==
  IF fragment # <<>> THEN Replace1(text, marker, fragment) ELSE text

\* text with marker replaced by fragment followed by sep and the marker again,
\* when the fragment is not empty (the "if spec.X != \"\" { Replace }" idiom)
Inject(text, fragment, sep, marker) ==
  IF fragment # <<>> THEN Replace1(text, marker, fragment \o sep \o marker) ELSE text

-----------------------------------------------------------------------------
(* wire.go                                                                 *)

\* injectWireConfig without its already-injected guard
injectWireConfigUnguarded(fs, spec) ==
  IF ~fs[ConfigFile].exists THEN Fail(fs, "read config.go")
  ELSE Ok(WriteFile(fs, ConfigFile,
            Inject(Inject(fs[ConfigFile].text,
                          spec.ConfigFields, <<NL, TAB>>, <<MkConfigFields>>),
                   spec.ConfigLoads, <<NL, TAB>>, <<MkConfigLoads>>)))

injectWireConfig(fs, spec) ==
  IF ~fs[ConfigFile].exists THEN Fail(fs, "read config.go")
  ELSE
    LET text == fs[ConfigFile].text
        t1 == Inject(text, spec.ConfigFields, <<NL, TAB>>, <<MkConfigFields>>)
        t2 == Inject(t1, spec.ConfigLoads, <<NL, TAB>>, <<MkConfigLoads>>)
    IN IF spec.ConfigFields # <<>> /\ Contains(text, FirstLine(spec.ConfigFields))
       THEN Ok(fs)
       ELSE Ok(WriteFile(fs, ConfigFile, t2))

\* the text between the first two quotes of line, or the whole line
QuotedOrLine(line) ==
  LET Between(rest, end) == IF end # 0 THEN SubSeq(rest, 1, end - 1) ELSE line
      After(rest) == Between(rest, Index(rest, <<QUOTE>>))
      From(start) == IF start # 0 THEN After(SubSeq(line, start + 1, Len(line))) ELSE line
  IN From(Index(line, <<QUOTE>>))

\* a guard string that is always empty, so that the guard never applies
wireGuardStringEmpty(spec) == <<>>

wireGuardString(spec) ==
  LET FromFields == IF spec.ContainerFields # <<>>
                    THEN TrimSpace(Split(spec.ContainerFields)[1])
                    ELSE <<>>
      \* the first line of the imports that is not blank, if there is one
      FirstOf(lines, nonBlank) ==
        IF spec.ContainerImports # <<>> /\ nonBlank # {}
        THEN QuotedOrLine(TrimSpace(
               lines[CHOOSE i \in nonBlank : \A j \in nonBlank : i <= j]))
        ELSE FromFields
      Scan(lines) == FirstOf(lines, {i \in 1..Len(lines) : TrimSpace(lines[i]) # <<>>})
  IN Scan(Split(spec.ContainerImports))

injectWireContainer(fs, spec) ==
  IF ~fs[ContainerFile].exists THEN Fail(fs, "read container.go")
  ELSE
    LET text == fs[ContainerFile].text
        guardStr == wireGuardString(spec)
        t1 == Inject(text, spec.ContainerImports, <<NL, TAB>>, <<MkContainerImports>>)
        t2 == Inject(t1, spec.ContainerFields, <<NL, TAB>>, <<MkContainerFields>>)
        t3 == Inject(t2, spec.ModuleInit, <<NL, NL, TAB>>, <<MkModuleInit>>)
        t4 == Inject(t3, spec.BackgroundStart, <<NL, TAB>>, <<MkBackgroundStart>>)
        t5 == Inject(t4, spec.ContainerHelpers, <<NL, NL>>, <<MkContainerHelpers>>)
    IN IF guardStr # <<>> /\ Contains(text, guardStr)
       THEN Ok(fs)
       ELSE Ok(WriteFile(fs, ContainerFile, t5))

\* the tokens of `protected := app.Group("/api/v1")`
ProtectedAssign == "protected :="
GroupCall == " app.Group(\"/api/v1\""
oldGroup == <<ProtectedAssign, GroupCall, ")">>
newGroup(mw) == <<ProtectedAssign, GroupCall, ",", NL, TAB, TAB>> \o mw \o <<",", NL, TAB, ")">>

injectWireServer(fs, spec) ==
  IF ~fs[ServerFile].exists THEN Fail(fs, "read server.go")
  ELSE
    LET text == fs[ServerFile].text
        t1 == Inject(text, spec.ServerImports, <<NL, TAB>>, <<MkServerImports>>)
        t2 == Inject(t1, spec.PublicRoutes, <<NL, NL, TAB>>, <<MkPublicRoutes>>)
        t3 == IF spec.RouteRegistration # <<>> \/ spec.AuthMiddleware # <<>>
              THEN IF ~Contains(t2, <<ProtectedAssign>>)
                   THEN IF spec.AuthMiddleware # <<>>
                        THEN Replace1(t2, <<MkRouteRegistration>>,
                               <<TAB>> \o newGroup(spec.AuthMiddleware)
                                 \o <<NL, NL, TAB, MkRouteRegistration>>)
                        ELSE Replace1(t2, <<MkRouteRegistration>>,
                               <<TAB>> \o oldGroup \o <<NL, NL, TAB, MkRouteRegistration>>)
                   ELSE IF spec.AuthMiddleware # <<>> /\ ~Contains(t2, spec.AuthMiddleware)
                        THEN Replace1(t2, oldGroup, newGroup(spec.AuthMiddleware))
                        ELSE t2
              ELSE t2
        t4 == Inject(t3, spec.RouteRegistration, <<NL, NL, TAB>>, <<MkRouteRegistration>>)
    IN IF spec.PublicRoutes # <<>> /\ Contains(text, FirstLine(spec.PublicRoutes))
       THEN Ok(fs)
       ELSE Ok(WriteFile(fs, ServerFile, t4))

\* tabPrefixLines: a leading tab on every non-empty line
tabPrefixLines(s) ==
  LET Prefix(lines) == [i \in 1..Len(lines) |->
                          IF lines[i] # <<>> THEN <<TAB>> \o lines[i] ELSE lines[i]]
  IN Join(Prefix(Split(s)))

injectIntoMakefile(fs, spec) ==
  IF ~fs[MakefilePath].exists THEN Ok(fs)
  ELSE
    LET text == fs[MakefilePath].text
        t1 == Inject(text, spec.MakefileEnv, <<NL, NL>>, <<MkEnvConfig>>)
        t2 == IF spec.MakefileEnvDisplay # <<>>
              THEN Replace1(t1, <<TAB, MkEnvDisplay>>,
                     tabPrefixLines(spec.MakefileEnvDisplay) \o <<NL, TAB, MkEnvDisplay>>)
              ELSE t1
    IN IF spec.MakefileEnv # <<>> /\ Contains(text, FirstLine(spec.MakefileEnv))
       THEN Ok(fs)
       ELSE Ok(WriteFile(fs, MakefilePath, t2))

\* the loop over the bridge's import lines: each trimmed, non-empty line that
\* the text does not hold yet goes in before the imports marker
RECURSIVE BridgeImports(_, _)
BridgeImports(text, lines) ==
  IF lines = <<>> THEN text
  ELSE LET With(line) == IF line # <<>> /\ ~Contains(text, line)
                         THEN Replace1(text, <<MkContainerImports>>,
                                <<TAB>> \o line \o <<NL, TAB, MkContainerImports>>)
                         ELSE text
       IN BridgeImports(With(TrimSpace(Head(lines))), Tail(lines))

\* injectBridge putting the init code behind the marker
injectBridgeAfterMarker(fs, bridge) ==
  IF ~fs[ContainerFile].exists THEN Fail(fs, "read container.go for bridge")
  ELSE IF Contains(fs[ContainerFile].text, FirstLine(bridge.ContainerInit)) THEN Ok(fs)
  ELSE Ok(WriteFile(fs, ContainerFile,
            Replace1(fs[ContainerFile].text, <<MkModuleInit>>,
                     <<MkModuleInit, NL>> \o bridge.ContainerInit)))

injectBridge(fs, bridge) ==
  IF ~fs[ContainerFile].exists THEN Fail(fs, "read container.go for bridge")
  ELSE
    LET text == fs[ContainerFile].text
        t1 == IF bridge.ContainerImports # <<>>
              THEN BridgeImports(text, Split(bridge.ContainerImports))
              ELSE text
        t2 == Inject(t1, bridge.ContainerInit, <<NL, NL, TAB>>, <<MkModuleInit>>)
    IN IF Contains(text, FirstLine(bridge.ContainerInit))
       THEN Ok(fs)
       ELSE Ok(WriteFile(fs, ContainerFile, t2))

\* strings.ReplaceAll of the two placeholders
ReplaceTokens(s, goModule, projectName) ==
  [i \in 1..Len(s) |->
     IF s[i] = GOMODULE THEN goModule
     ELSE IF s[i] = PROJECTNAME THEN projectName
     ELSE s[i]]

replaceBridgePlaceholders(bridge, goModule, projectName) ==
  [bridge EXCEPT
     !.ContainerImports = ReplaceTokens(@, goModule, projectName),
     !.ContainerInit = ReplaceTokens(@, goModule, projectName)]

replacePlaceholders(spec, goModule, projectName) ==
  LET r(s) == ReplaceTokens(s, goModule, projectName)
  IN [spec EXCEPT
        !.ConfigFields = r(@), !.ConfigLoads = r(@),
        !.ContainerImports = r(@), !.ContainerFields = r(@), !.ModuleInit = r(@),
        !.BackgroundStart = r(@), !.ContainerHelpers = r(@),
        !.ServerImports = r(@), !.PublicRoutes = r(@), !.RouteRegistration = r(@),
        !.MakefileEnv = r(@), !.MakefileEnvDisplay = r(@),
        !.Bridges = [i \in 1..Len(@) |->
                       replaceBridgePlaceholders(@[i], goModule, projectName)]]

\* a lookup that finds no module
hasWiredModuleNever(wired, name) == FALSE

hasWiredModule(wired, name) == \E i \in 1..Len(wired) : wired[i] = name

\* the bridges loop of WireModule: every bridge whose other module is in
\* opts.WiredModules is injected; the first failure ends the loop
RECURSIVE WireBridges(_, _, _)
WireBridges(fs, bridges, opts) ==
  IF bridges = <<>> THEN Ok(fs)
  ELSE LET bridge == Head(bridges)
           Rest(r) == IF r.err # "" THEN r ELSE WireBridges(r.fs, Tail(bridges), opts)
       IN Rest(IF hasWiredModule(opts.WiredModules, bridge.RequiresModule)
               THEN injectBridge(fs, replaceBridgePlaceholders(bridge, opts.GoModule,
                                                                opts.ProjectName))
               ELSE Ok(fs))

\* installGoDeps: `go get` for each dependency; goGet is the outcome of the run
installGoDeps(deps, goGet) == IF goGet THEN "" ELSE "go get"

WireResult(fs, reg, modified, err) ==
  [fs |-> fs, reg |-> reg, modified |-> modified, err |-> err]

\* WireModule(opts) on the files fs with the in-process registry reg.  The
\* result carries the files and the registry as the call leaves them, the list
\* of modified files (nil, here <<>>, on every error return) and the error.
\* replacePlaceholders writes the substituted bridge fragments through the
\* Bridges slice, which the copy shares with the registry's entry.
WireModule(fs, reg, opts, goGet) ==
  IF opts.ModuleName \notin DOMAIN reg
  THEN WireResult(fs, reg, <<>>, "unknown wireable module")
  ELSE
    LET \* the end of a step: an error of the injector ends WireModule with
        \* `return nil, fmt.Errorf(label, err)`, success appends the path
        Done(w, r, path, label) ==
          IF r.err # "" THEN [fs |-> r.fs, modified |-> <<>>, err |-> label]
          ELSE [fs |-> r.fs, modified |-> w.modified \o path, err |-> ""]
        \* a step runs when WireModule has not returned yet and its
        \* condition on the spec holds
        Step(w, declared, inject(_), path, label) ==
          IF w.err # "" \/ ~declared THEN w ELSE Done(w, inject(w.fs), path, label)
        Steps(spec) ==
          LET w0 == [fs |-> fs, modified |-> <<>>, err |-> ""]
              w1 == Step(w0, spec.ConfigFields # <<>> \/ spec.ConfigLoads # <<>>,
                         LAMBDA f : injectWireConfig(f, spec),
                         <<ConfigFile>>, "wire config")
              w2 == Step(w1, TRUE,
                         LAMBDA f : injectWireContainer(f, spec),
                         <<ContainerFile>>, "wire container")
              w3 == Step(w2, spec.PublicRoutes # <<>> \/ spec.RouteRegistration # <<>>
                               \/ spec.AuthMiddleware # <<>> \/ spec.ServerImports # <<>>,
                         LAMBDA f : injectWireServer(f, spec),
                         <<ServerFile>>, "wire server")
              w4 == Step(w3, spec.MakefileEnv # <<>> \/ spec.MakefileEnvDisplay # <<>>,
                         LAMBDA f : injectIntoMakefile(f, spec),
                         <<MakefilePath>>, "wire makefile")
              w5 == Step(w4, TRUE,
                         LAMBDA f : WireBridges(f, spec.Bridges, opts),
                         <<>>, "wire bridge")
              w6 == Step(w5, Len(spec.GoDeps) > 0,
                         LAMBDA f : [fs |-> f, err |-> installGoDeps(spec.GoDeps, goGet)],
                         <<>>, "install deps")
          IN w6
        Result(spec, w) ==
          WireResult(w.fs, [reg EXCEPT ![opts.ModuleName].Bridges = spec.Bridges],
                     w.modified, w.err)
        Wire(spec) == Result(spec, Steps(spec))
    IN Wire(replacePlaceholders(reg[opts.ModuleName], opts.GoModule, opts.ProjectName))

\* a scan that stops at the first closing brace, nested or not
MatchCloseFirst(text, pos, depth) ==
  LET hits == {p \in pos..Len(text) : text[p] = CLOSE}
  IN IF hits = {} THEN [pos |-> Len(text) + 1, depth |-> depth]
     ELSE [pos |-> CHOOSE p \in hits : \A q \in hits : p <= q, depth |-> 0]

\* insertMarkerBeforeClosingBrace: the scan for the brace matching the opener's
RECURSIVE MatchClose(_, _, _)
MatchClose(text, pos, depth) ==
  IF pos <= Len(text) /\ depth > 0
  THEN LET d == IF text[pos] = OPEN THEN depth + 1
                ELSE IF text[pos] = CLOSE THEN depth - 1
                ELSE depth
       IN IF d > 0 THEN MatchClose(text, pos + 1, d) ELSE [pos |-> pos, depth |-> d]
  ELSE [pos |-> pos, depth |-> depth]

insertMarkerBeforeClosingBrace(text, opener, marker) ==
  LET Insert(m) ==
        IF m.depth # 0 THEN text
        ELSE SubSeq(text, 1, m.pos - 1) \o <<TAB, marker, NL>>
               \o SubSeq(text, m.pos, Len(text))
      Brace(idx, braceRel) ==
        IF braceRel = 0 THEN text ELSE Insert(MatchClose(text, braceRel + idx, 1))
      Opener(idx) ==
        IF idx = 0 THEN text ELSE Brace(idx, Index(SubSeq(text, idx, Len(text)), <<OPEN>>))
  IN Opener(Index(text, opener))

ConfigStructOpener == <<"type Config struct ", OPEN>>
ReturnCfg == "return cfg"

PostProcessConfigFile(fs) ==
  IF ~fs[ConfigFile].exists THEN Ok(fs)
  ELSE
    LET text == fs[ConfigFile].text
        Loads(t1, returnIdx) ==
          IF returnIdx # 0
          THEN SubSeq(t1, 1, returnIdx - 1) \o <<TAB, MkConfigLoads, NL, NL, TAB>>
                 \o SubSeq(t1, returnIdx, Len(t1))
          ELSE t1
        Fields(t1) == Loads(t1, Index(t1, <<ReturnCfg>>))
    IN IF Contains(text, <<MkConfigFields>>) THEN Ok(fs)
       ELSE Ok(WriteFile(fs, ConfigFile,
              Fields(insertMarkerBeforeClosingBrace(text, ConfigStructOpener,
                                                    MkConfigFields))))

-----------------------------------------------------------------------------
(* The module registry and the dependency resolver (config/manifest.go)    *)

Mod(paths, deps) == [Paths |-> paths, Deps |-> deps]

\* config.ModuleRegistry as the init / add / install code uses it (the
\* version of the file that declares Manifest.WiredModules)
ModuleRegistry ==
  [n \in {"kernel", "errx", "logx", "ptrx", "asyncx", "config", "server",
          "migrations", "iam", "fsx", "ai", "jobx", "notifx"} |->
     CASE n = "server" -> Mod(<<>>, <<>>)
       [] n = "migrations" -> Mod(<<"migrations">>, <<>>)
       [] OTHER -> Mod(<<"pkg/" \o n>>, <<>>)]

\* the same table in internal/config/manifest.go, where fsx and ai declare
\* dependencies
ModuleRegistryWithDeps ==
  [n \in {"kernel", "errx", "logx", "ptrx", "asyncx", "config", "server",
          "migrations", "iam", "fsx", "ai"} |->
     CASE n = "server" -> Mod(<<>>, <<>>)
       [] n = "migrations" -> Mod(<<"migrations">>, <<>>)
       [] n = "fsx" -> Mod(<<"pkg/fsx">>, <<"errx">>)
       [] n = "ai" -> Mod(<<"pkg/ai">>, <<"errx", "fsx">>)
       [] OTHER -> Mod(<<"pkg/" \o n>>, <<>>)]

RECURSIVE resolve(_, _, _)
RECURSIVE resolveEach(_, _, _)

\* resolve with the name appended before its dependencies are visited
resolvePreOrder(reg, st, name) ==
  IF name \in st.seen THEN st
  ELSE LET st1 == [st EXCEPT !.seen = @ \cup {name}, !.result = Append(@, name)]
       IN IF name \in DOMAIN reg THEN resolveEach(reg, st1, reg[name].Deps) ELSE st1

\* resolve appending a name every time it is met, visited or not
resolveAppendsSeen(reg, st, name) ==
  IF name \in st.seen THEN [st EXCEPT !.result = Append(@, name)]
  ELSE LET st1 == [st EXCEPT !.seen = @ \cup {name}]
           st2 == IF name \in DOMAIN reg THEN resolveEach(reg, st1, reg[name].Deps)
                  ELSE st1
       IN [st2 EXCEPT !.result = Append(@, name)]

\* the closure `resolve` of ResolveDeps; st is [seen, result]
resolve(reg, st, name) ==
  IF name \in st.seen THEN st
  ELSE LET st1 == [st EXCEPT !.seen = @ \cup {name}]
           st2 == IF name \in DOMAIN reg THEN resolveEach(reg, st1, reg[name].Deps)
                  ELSE st1
       IN [st2 EXCEPT !.result = Append(@, name)]

\* `for _, n := range names { resolve(n) }`
resolveEach(reg, st, names) ==
  IF names = <<>> THEN st
  ELSE resolveEach(reg, resolve(reg, st, Head(names)), Tail(names))

ResolveDeps(reg, names) == resolveEach(reg, [seen |-> {}, result |-> <<>>], names).result

Range(s) == {s[i] : i \in 1..Len(s)}

\* the concatenation of mod.Paths over a list of module names, as a set
PathsOf(reg, names) ==
  UNION {Range(reg[n].Paths) : n \in Range(names) \cap DOMAIN reg}

-----------------------------------------------------------------------------
(* Generated and fetched files                                             *)

\* project/container.go.tmpl rendered for a Go module path
ContainerTemplate(goModule) ==
  <<"package main", NL, NL,
    "import (", NL,
    TAB, QUOTE, goModule, "/pkg/config", QUOTE, NL,
    TAB, MkContainerImports, NL,
    ")", NL, NL,
    "type Container struct ", OPEN, NL,
    TAB, "Config *config.Config", NL,
    TAB, MkContainerFields, NL,
    CLOSE, NL, NL,
    "func (c *Container) initModules() ", OPEN, NL,
    TAB, MkModuleInit, NL,
    CLOSE, NL, NL,
    "func (c *Container) StartBackgroundServices(ctx context.Context) ", OPEN, NL,
    TAB, MkBackgroundStart, NL,
    CLOSE, NL, NL,
    MkContainerHelpers, NL>>

\* project/server.go.tmpl
ServerTemplate(goModule) ==
  <<"package main", NL, NL,
    "import (", NL,
    TAB, QUOTE, goModule, "/pkg/logx", QUOTE, NL,
    TAB, MkServerImports, NL,
    ")", NL, NL,
    "func registerRoutes(app *fiber.App, container *Container) ", OPEN, NL,
    TAB, MkPublicRoutes, NL, NL,
    TAB, MkRouteRegistration, NL,
    CLOSE, NL>>

\* project/makefile.tmpl
MakefileTemplate(projectName) ==
  <<"APP_NAME = ", projectName, NL, NL,
    MkEnvConfig, NL, NL,
    "env:", NL,
    TAB, "@echo \"App: $(APP_NAME)\"", NL,
    TAB, MkEnvDisplay, NL>>

\* pkg/config/config.go of the template repository, as the archive delivers it
\* (no wiring markers yet)
UpstreamConfig ==
  <<"package config", NL, NL,
    "type Config struct ", OPEN, NL,
    TAB, "Server ServerConfig", NL,
    CLOSE, NL, NL,
    "func Load() *Config ", OPEN, NL,
    TAB, "cfg := &Config", OPEN, CLOSE, NL,
    TAB, "cfg.Server = loadServerConfig()", NL,
    TAB, ReturnCfg, NL,
    CLOSE, NL>>

NoFiles == [f \in TargetFiles |-> Absent]

DefaultRef == "main"

-----------------------------------------------------------------------------
(* Domain scaffolding's injection (GenerateDomain as the README lists it)  *)

\* NewDomainData for a domain path whose last segment is pkgName
DomainData(goModule, domainPath, pkgName, entityName) ==
  [GoModule |-> goModule, DomainPath |-> domainPath, EntityName |-> entityName,
   ContainerPkg |-> pkgName \o "container"]

injectIntoRootContainer(fs, data) ==
  IF ~fs[ContainerFile].exists THEN Fail(fs, "read cmd/container.go")
  ELSE
    LET text == fs[ContainerFile].text
        containerImport == <<data.GoModule, "/" \o data.DomainPath, "/" \o data.ContainerPkg>>
        t1 == Replace1(text, <<MkContainerImports>>,
                <<TAB, QUOTE>> \o containerImport \o <<QUOTE, NL, TAB, MkContainerImports>>)
        t2 == Replace1(t1, <<MkContainerFields>>,
                <<TAB, data.EntityName \o " *" \o data.ContainerPkg \o ".Container",
                  NL, TAB, MkContainerFields>>)
        t3 == Replace1(t2, <<MkModuleInit>>,
                <<TAB, "c." \o data.EntityName \o " = " \o data.ContainerPkg \o ".New("
                         \o data.ContainerPkg \o ".Deps", OPEN, NL,
                  TAB, TAB, "DB: c.DB,", NL,
                  TAB, CLOSE, ")", NL, NL,
                  TAB, MkModuleInit>>)
    IN IF Contains(text, containerImport) THEN Ok(fs)
       ELSE Ok(WriteFile(fs, ContainerFile, t3))

injectIntoServerRoutes(fs, data) ==
  IF ~fs[ServerFile].exists THEN Fail(fs, "read cmd/server.go")
  ELSE
    LET text == fs[ServerFile].text
        routeCall == "container." \o data.EntityName \o ".RegisterRoutes"
        t1 == Replace1(text, <<MkRouteRegistration>>,
                <<TAB, routeCall, "(protected)", NL, TAB, MkRouteRegistration>>)
    IN IF Contains(text, <<routeCall>>) THEN Ok(fs)
       ELSE Ok(WriteFile(fs, ServerFile, t1))

-----------------------------------------------------------------------------
(* State                                                                   *)

VARIABLES
  registry,   \* the module registry ResolveDeps reads
  request,    \* the names ResolveDeps is asked for
  resolved,   \* [done, result] of the ResolveDeps call
  dir,        \* TRUE when the project root directory exists
  fs,         \* the wiring target files of the project: path -> [exists, text]
  sources,    \* remote paths whose source the fetcher has written to the tree
  manifest,   \* manifesto.yaml on disk: [exists, Name, GoModule, Version,
              \* Modules, WiredModules]
  last,       \* the last operation: [op, arg, err, calls, refs, versions]
  ops,        \* number of operations run so far
  archive,    \* the entries of the downloaded archive, in order
  fetchCall,  \* a FetchModulePaths call on its own: [paths, goModuleOld,
              \* goModuleNew, done, err, tree]
  content,    \* a text handed to the config.go preparation pass
  processed,  \* [n, file, once, scanned, inserted]: config.go after n runs of
              \* the pass and after the first one, and content after
              \* insertMarkerBeforeClosingBrace
  clock,      \* time.Now()
  manifestMem,   \* a *Manifest in memory: [exists, m]
  manifestYaml,  \* manifesto.yaml: [exists, doc, original]
  loaded,     \* what LoadManifest returned: [done, m]
  program,    \* the spinner calls of the running function: [ops, at, code]
  caller,     \* where the calling goroutine is: "ready", or inside Stop
  spinner,    \* the *Spinner in hand: [id, stopped, mu]
  routines,   \* the goroutines Start has launched: [spinner, pc, i]
  shown       \* what has happened on the terminal and the channels:
              \* [sends, returned, late]: sends received, and the
              \* spinners whose Stop returned after its send and those
              \* that printed a frame after that

vars == <<registry, request, resolved, dir, fs, sources, manifest, last, ops,
          archive, fetchCall, content, processed,
          clock, manifestMem, manifestYaml, loaded,
          program, caller, spinner, routines, shown>>

resolverVars == <<registry, request, resolved>>
projectVars == <<dir, fs, sources, manifest, last, ops>>
fetchVars == <<archive, fetchCall>>
textVars == <<content, processed>>
roundTripVars == <<clock, manifestMem, manifestYaml, loaded>>
spinnerVars == <<program, caller, spinner, routines, shown>>

NoManifest ==
  [exists |-> FALSE, Name |-> "", GoModule |-> "", Version |-> "",
   Modules |-> {}, WiredModules |-> <<>>, UpdatedAt |-> 0]

\* the running operation: the disk as it sees it, its in-memory manifest, the
\* process's wiring registry, the WireModule calls it made, its fetch count,
\* the references it downloaded, its GetLatestVersion calls, and the time
\* (the k-th operation of a behaviour runs at time k)
Begin ==
  [dir |-> dir, fs |-> fs, sources |-> sources, disk |-> manifest, mem |-> manifest,
   reg |-> WireableModuleRegistry, calls |-> <<>>, fetches |-> 0, refs |-> <<>>,
   versions |-> <<>>, now |-> ops + 1, err |-> ""]

\* Manifest.Save: UpdatedAt is set to the time of the call and the in-memory
\* manifest replaces the file
Save(st) ==
  LET Written(m) == [st EXCEPT !.mem = m, !.disk = m]
  IN Written([st.mem EXCEPT !.exists = TRUE, !.UpdatedAt = st.now])

Err(st, msg) == [st EXCEPT !.err = msg]

-----------------------------------------------------------------------------
(* remote.Client                                                           *)

\* GetLatestVersion handing on whatever tag the lookup produced
GetLatestVersionNoFallback(lookup) == [ref |-> lookup.tag, err |-> ""]

\* GetLatestVersion: lookup is the outcome of the latest-release request,
\* [status, tag]: status "transport", "http404", "malformed" or "ok"
GetLatestVersion(lookup) ==
  IF lookup.status # "ok" \/ lookup.tag = ""
  THEN [ref |-> DefaultRef, err |-> ""]
  ELSE [ref |-> lookup.tag, err |-> ""]

\* a caller's call of client.GetLatestVersion, recorded in st.versions
CallGetLatestVersion(st, env) ==
  LET Returned(v) ==
        [st EXCEPT !.versions = Append(@, [lookup |-> env.lookup, ref |-> v.ref,
                                           err |-> v.err])]
  IN Returned(GetLatestVersion(env.lookup))

\* what the last GetLatestVersion call of the operation returned
Latest(st) == st.versions[Len(st.versions)]

\* FetchModulePaths within an operation: the env.failFetchAt-th archive
\* download of the operation fails, and so does the download of the empty
\* reference (no such branch); a download that succeeds writes every entry
\* under the given paths.  The reference asked for is recorded in st.refs.
FetchModulePaths(st, ref, paths, env) ==
  LET n == st.fetches + 1
  IN IF env.failFetchAt = n \/ ref = ""
     THEN [st EXCEPT !.fetches = n, !.refs = Append(@, ref),
                     !.err = "failed to download archive"]
     ELSE [st EXCEPT !.fetches = n, !.refs = Append(@, ref),
                     !.sources = @ \cup paths,
                     !.fs = IF "pkg/config" \in paths
                            THEN WriteFile(@, ConfigFile, UpstreamConfig) ELSE @]

(* The extraction itself.  A path is the sequence of its elements and      *)
(* separators; an element may be cut in two where one name is the start of  *)
(* another (fsx, fsxtra) and before its extension.  An archive entry is     *)
(* [Name, Typeflag, Content]; the tree maps a path under the destination    *)
(* root to [kind, content, entry], entry being the index of the archive     *)
(* entry that made it.                                                      *)

SLASH == "/"
GoExt == ".go"

\* strings.SplitN(name, "/", 2)
SplitN2(name) ==
  LET At(i) == IF i = 0 THEN <<name>>
               ELSE <<SubSeq(name, 1, i - 1), SubSeq(name, i + 1, Len(name))>>
  IN At(Index(name, <<SLASH>>))

\* matchesAnyPrefix comparing strings only
matchesAnyStringPrefix(path, prefixes) ==
  \E i \in 1..Len(prefixes) : HasPrefix(path, prefixes[i])

matchesAnyPrefix(path, prefixes) ==
  \E i \in 1..Len(prefixes) :
    path = prefixes[i] \/ HasPrefix(path, prefixes[i] \o <<SLASH>>)

\* the elements of a path: the runs of pieces between separators, empty
\* ones (a doubled or trailing separator) left out
RECURSIVE Elements(_, _, _)
Elements(path, cur, i) ==
  LET Flush == IF cur = <<>> THEN <<>> ELSE <<cur>>
  IN IF i > Len(path) THEN Flush
     ELSE IF path[i] = SLASH THEN Flush \o Elements(path, <<>>, i + 1)
     ELSE Elements(path, Append(cur, path[i]), i + 1)

\* filepath.Clean on the elements of a relative path: "." is dropped, ".."
\* takes the element before it away, and stays where there is none to take
RECURSIVE CleanElements(_, _, _)
CleanElements(elems, out, i) ==
  IF i > Len(elems) THEN out
  ELSE IF elems[i] = <<".">> THEN CleanElements(elems, out, i + 1)
  ELSE IF elems[i] = <<"..">> /\ out # <<>> /\ out[Len(out)] # <<"..">>
       THEN CleanElements(elems, SubSeq(out, 1, Len(out) - 1), i + 1)
  ELSE CleanElements(elems, Append(out, elems[i]), i + 1)

RECURSIVE JoinElements(_, _)
JoinElements(elems, i) ==
  IF i > Len(elems) THEN <<>>
  ELSE elems[i] \o (IF i < Len(elems) THEN <<SLASH>> ELSE <<>>) \o JoinElements(elems, i + 1)

\* filepath.Join(destRoot, relPath), relative to destRoot: the cleaned path,
\* which starts with ".." when it leaves destRoot and is <<>> for destRoot
Clean(path) == JoinElements(CleanElements(Elements(path, <<>>, 1), <<>>, 1), 1)

\* destPath is not destRoot and not below it
OutsideRoot(path) == path # <<>> /\ path[1] = ".."

\* destPath is a directory above destRoot, or destRoot
AboveRoot(path) == \A i \in 1..Len(path) : path[i] \in {"..", SLASH}

\* the path and the directories above it, up to the destination root
Ancestry(path) ==
  {path} \cup {SubSeq(path, 1, i - 1) : i \in {j \in 2..Len(path) : path[j] = SLASH}}

\* filepath.Dir, relative to destRoot (<<>> is the root itself)
Dir(path) ==
  LET Cut(seps) == IF seps = {} THEN <<>>
                   ELSE SubSeq(path, 1, (CHOOSE i \in seps : \A j \in seps : j <= i) - 1)
  IN Cut({j \in 1..Len(path) : path[j] = SLASH})

\* os.MkdirAll(path): fails where a regular file is in the way, else makes
\* the directory and every directory above it that is missing (destRoot's
\* own parents exist)
MkdirAll(tree, path, entry) ==
  LET made == {d \in Ancestry(path) : ~AboveRoot(d)}
  IN IF \E d \in made \cap DOMAIN tree : tree[d].kind # "dir"
     THEN [tree |-> tree, err |-> "mkdir"]
     ELSE [tree |-> [d \in DOMAIN tree \cup made |->
                       IF d \in DOMAIN tree THEN tree[d]
                       ELSE [kind |-> "dir", content |-> <<>>, entry |-> entry]],
           err |-> ""]

\* os.WriteFile(destPath, content) in the tree: fails on a directory
WriteEntry(tree, path, text, entry) ==
  IF path \in DOMAIN tree /\ tree[path].kind = "dir"
  THEN [tree |-> tree, err |-> "write"]
  ELSE [tree |-> [d \in DOMAIN tree \cup {path} |->
                    IF d = path THEN [kind |-> "file", content |-> text, entry |-> entry]
                    ELSE tree[d]],
        err |-> ""]

\* the "Rewrite Go imports" step
RewriteImports(relPath, text, goModuleOld, goModuleNew) ==
  IF HasSuffix(relPath, <<GoExt>>) /\ goModuleOld # <<>> /\ goModuleNew # <<>>
  THEN ReplaceAll(text, goModuleOld, goModuleNew)
  ELSE text

\* the loop of FetchModulePaths over the archive's entries, from entry i
RECURSIVE ExtractEntries(_, _, _, _, _, _)
ExtractEntries(tree, entries, i, paths, goModuleOld, goModuleNew) ==
  IF i > Len(entries) THEN [tree |-> tree, err |-> ""]
  ELSE
    LET header == entries[i]
        Continue(t) == ExtractEntries(t, entries, i + 1, paths, goModuleOld, goModuleNew)
        Then(r) == IF r.err # "" THEN r ELSE Continue(r.tree)
        Written(relPath, destPath, r) ==
          IF r.err # "" THEN r
          ELSE Then(WriteEntry(r.tree, destPath,
                      RewriteImports(relPath, header.Content, goModuleOld, goModuleNew), i))
        Entry(relPath, destPath) ==
          IF ~matchesAnyPrefix(relPath, paths) THEN Continue(tree)
          ELSE IF header.Typeflag = "dir" THEN Then(MkdirAll(tree, destPath, i))
          ELSE IF header.Typeflag = "reg"
               THEN Written(relPath, destPath, MkdirAll(tree, Dir(destPath), i))
          ELSE Continue(tree)
        Parts(parts) ==
          IF Len(parts) < 2 \/ parts[2] = <<>> THEN Continue(tree)
          ELSE Entry(parts[2], Clean(parts[2]))
    IN Parts(SplitN2(header.Name))

\* FetchModulePaths into an empty destination: downloaded tells whether
\* downloadArchive got the archive
ExtractModulePaths(downloaded, entries, paths, goModuleOld, goModuleNew) ==
  IF ~downloaded THEN [tree |-> <<>>, err |-> "failed to download archive"]
  ELSE ExtractEntries(<<>>, entries, 1, paths, goModuleOld, goModuleNew)

-----------------------------------------------------------------------------
(* scaffold/project.go, scaffold/domain.go, cli/add.go                     *)

\* EnsureModulesPresent downloading nothing
EnsureModulesPresentSkipped(st, requiredModules, ref, env) == st

EnsureModulesPresent(st, requiredModules, ref, env) ==
  LET Missing(m) == /\ m \notin st.mem.Modules
                    /\ m \in DOMAIN ModuleRegistry
                    /\ Len(ModuleRegistry[m].Paths) # 0
      Fetched(toDownload, f) ==
        IF f.err # "" THEN Err(f, "download modules")
        ELSE [f EXCEPT !.mem.Modules = @ \cup Range(toDownload)]
      Download(toDownload) ==
        IF Len(toDownload) = 0 THEN st
        ELSE Fetched(toDownload,
                     FetchModulePaths(st, ref, PathsOf(ModuleRegistry, toDownload), env))
  IN Download(SelectSeq(ResolveDeps(ModuleRegistry, requiredModules), Missing))

\* a caller's call of WireModule with the manifest's wired list, recorded in
\* st.calls with the files and the process's registry as the call left them
\* and with what was installed and fetched when it was made
CallWireModule(st, moduleName, opts, env) ==
  LET Returned(r) ==
        [st EXCEPT !.fs = r.fs, !.reg = r.reg, !.err = r.err,
                   !.calls = Append(@, [module |-> moduleName, err |-> r.err,
                                        modified |-> r.modified, before |-> st.fs,
                                        after |-> r.fs,
                                        wired |-> st.mem.WiredModules,
                                        installed |-> st.mem.Modules,
                                        sources |-> st.sources,
                                        reg |-> r.reg])]
  IN Returned(WireModule(st.fs, st.reg,
                [ModuleName |-> moduleName, GoModule |-> opts.GoModule,
                 ProjectName |-> opts.ProjectName, WiredModules |-> st.mem.WiredModules],
                env.goGet))

\* step 6 of InitProject: the loop over opts.WireModules
RECURSIVE InitWireLoop(_, _, _, _, _)
InitWireLoop(st, wireModules, opts, ref, env) ==
  IF wireModules = <<>> THEN st
  ELSE
    LET wireMod == Head(wireModules)
        spec == WireableModuleRegistry[wireMod]
        Wired(s2) ==
          IF s2.err # "" THEN Err(s2, "wire")
          ELSE InitWireLoop([s2 EXCEPT !.mem.WiredModules = Append(@, wireMod)],
                            Tail(wireModules), opts, ref, env)
        Ensured(s1) ==
          IF s1.err # "" THEN Err(s1, "download deps")
          ELSE Wired(CallWireModule(s1, wireMod, opts, env))
    IN IF ~IsWireableModule(wireMod) THEN Err(st, "unknown wireable module")
       ELSE Ensured(IF Len(spec.RequiredModules) > 0
                    THEN EnsureModulesPresent(st, spec.RequiredModules, ref, env) ELSE st)

\* the os.Stat of InitProject never finding the project directory
ProjectRootExistsNever(st) == FALSE

\* `_, err := os.Stat(projectRoot); !os.IsNotExist(err)`
ProjectRootExists(st) == st.dir

InitProject(st, opts, env) ==
  LET \* `ref := opts.Ref`, or what GetLatestVersion gave the operation sv
      RefOf(sv) == IF opts.Ref # "" THEN opts.Ref
                   ELSE IF Latest(sv).err # "" THEN DefaultRef
                   ELSE Latest(sv).ref
      \* after step 6: the manifest is saved again if modules were wired
      Wired(s6) ==
        IF s6.err # "" THEN s6
        ELSE IF Len(opts.WireModules) > 0 THEN Save(s6)
        ELSE s6
      \* steps 3 to 6 on the fetched tree s2; a failed fetch removes the tree
      Fetched(s2, allModules, ref) ==
        LET s3 == [s2 EXCEPT !.fs =
                     WriteFile(WriteFile(WriteFile(@,
                       ContainerFile, ContainerTemplate(opts.GoModule)),
                       ServerFile, ServerTemplate(opts.GoModule)),
                       MakefilePath, MakefileTemplate(opts.ProjectName))]
            s4 == [s3 EXCEPT !.fs = PostProcessConfigFile(@).fs]
            s5 == Save([s4 EXCEPT !.mem = [exists |-> TRUE, Name |-> opts.ProjectName,
                                           GoModule |-> opts.GoModule, Version |-> ref,
                                           Modules |-> Range(allModules),
                                           WiredModules |-> <<>>,
                                           UpdatedAt |-> s4.now]])
        IN IF s2.err # ""
           THEN [s2 EXCEPT !.dir = FALSE, !.fs = NoFiles, !.sources = {},
                           !.err = "fetch modules"]
           ELSE Wired(InitWireLoop(s5, opts.WireModules, opts, ref, env))
      Paths(sv, allModules, allPaths, ref) ==
        Fetched(IF allPaths # {} THEN FetchModulePaths(sv, ref, allPaths, env) ELSE sv,
                allModules, ref)
      \* `ref` determined after the module list passed the registry check
      Versioned(sv, allModules) ==
        Paths(sv, allModules, PathsOf(ModuleRegistry, allModules), RefOf(sv))
      \* the module list resolved, in the directory just created
      Resolved(s1, allModules) ==
        IF \E m \in Range(allModules) : m \notin DOMAIN ModuleRegistry
        THEN Err(s1, "unknown module")
        ELSE Versioned(IF opts.Ref = "" THEN CallGetLatestVersion(s1, env) ELSE s1,
                       allModules)
  IN IF ProjectRootExists(st) THEN Err(st, "directory already exists")
     ELSE Resolved([st EXCEPT !.dir = TRUE], ResolveDeps(ModuleRegistry, opts.Modules))

\* a manifest in which nothing counts as wired
IsWiredNever(m, name) == FALSE

IsWired(m, name) == \E i \in 1..Len(m.WiredModules) : m.WiredModules[i] = name

\* runWireModule recording the module as wired whatever WireModule returned
runWireModuleRecordsFailure(st, moduleName, env) ==
  LET spec == WireableModuleRegistry[moduleName]
      RefOf(sv) == IF st.mem.Version # "" THEN st.mem.Version
                   ELSE IF Latest(sv).err # "" \/ Latest(sv).ref = "" THEN DefaultRef
                   ELSE Latest(sv).ref
      Versioned(sv) == EnsureModulesPresent(sv, spec.RequiredModules, RefOf(sv), env)
      Wired(s2) == Save([s2 EXCEPT !.mem.WiredModules = Append(@, moduleName)])
      Ensured(s1) ==
        IF s1.err # "" THEN Err(s1, "download")
        ELSE Wired(CallWireModule(s1, moduleName,
                     [GoModule |-> st.mem.GoModule, ProjectName |-> st.mem.Name], env))
  IN IF IsWired(st.mem, moduleName) THEN st
     ELSE Ensured(IF Len(spec.RequiredModules) > 0
                  THEN Versioned(IF st.mem.Version = ""
                                 THEN CallGetLatestVersion(st, env) ELSE st)
                  ELSE st)

runWireModule(st, moduleName, env) ==
  LET spec == WireableModuleRegistry[moduleName]
      \* `ref := manifest.Project.Version`, or what GetLatestVersion gave sv
      RefOf(sv) == IF st.mem.Version # "" THEN st.mem.Version
                   ELSE IF Latest(sv).err # "" \/ Latest(sv).ref = "" THEN DefaultRef
                   ELSE Latest(sv).ref
      Versioned(sv) == EnsureModulesPresent(sv, spec.RequiredModules, RefOf(sv), env)
      Wired(s2) ==
        IF s2.err # "" THEN s2
        ELSE Save([s2 EXCEPT !.mem.WiredModules = Append(@, moduleName)])
      Ensured(s1) ==
        IF s1.err # "" THEN Err(s1, "download")
        ELSE Wired(CallWireModule(s1, moduleName,
                     [GoModule |-> st.mem.GoModule, ProjectName |-> st.mem.Name], env))
  IN IF IsWired(st.mem, moduleName) THEN st
     ELSE Ensured(IF Len(spec.RequiredModules) > 0
                  THEN Versioned(IF st.mem.Version = ""
                                 THEN CallGetLatestVersion(st, env) ELSE st)
                  ELSE st)

runAddDomain(st, domain, env) ==
  LET data == DomainData(st.mem.GoModule, domain.path, domain.pkg, domain.entity)
      Routes(r1, r2) ==
        IF r2.err # "" THEN [st EXCEPT !.fs = r1.fs, !.err = "inject into server routes"]
        ELSE [st EXCEPT !.fs = r2.fs]
      Container(r1) ==
        IF r1.err # "" THEN Err(st, "inject into container")
        ELSE Routes(r1, injectIntoServerRoutes(r1.fs, data))
  IN Container(injectIntoRootContainer(st.fs, data))

\* runAdd for a module name (arg.module) or a domain path (arg.domain)
runAdd(st, arg, env) ==
  IF ~st.disk.exists THEN Err(st, "not a manifesto project")
  ELSE IF arg.kind = "module"
       THEN IF IsWireableModule(arg.name) THEN runWireModule(st, arg.name, env)
            ELSE Err(st, "unknown module")
       ELSE runAddDomain(st, arg, env)

\* InstallModule without its check of the name against the registry
InstallModuleUnchecked(st, opts, env) ==
  LET NotInstalled(m) == m \notin st.mem.Modules
      \* `ref := opts.Ref`, else the manifest's version, else what
      \* GetLatestVersion gave sv
      RefOf(sv) == IF opts.Ref # "" THEN opts.Ref
                   ELSE IF st.mem.Version # "" THEN st.mem.Version
                   ELSE IF Latest(sv).ref = "" THEN DefaultRef
                   ELSE Latest(sv).ref
      Fetched(toInstall, s1) ==
        IF s1.err # "" THEN Err(s1, "fetch module")
        ELSE Save([s1 EXCEPT !.mem.Modules = @ \cup Range(toInstall)])
      Versioned(toInstall, sv) ==
        Fetched(toInstall,
                FetchModulePaths(sv, RefOf(sv), PathsOf(ModuleRegistry, toInstall), env))
      Install(toInstall) ==
        Versioned(toInstall, IF opts.Ref = "" /\ st.mem.Version = ""
                             THEN CallGetLatestVersion(st, env) ELSE st)
  IN IF ~st.disk.exists THEN Err(st, "not a manifesto project")
     ELSE IF opts.ModuleName \in st.mem.Modules THEN Err(st, "already installed")
     ELSE Install(SelectSeq(ResolveDeps(ModuleRegistry, <<opts.ModuleName>>), NotInstalled))

InstallModule(st, opts, env) ==
  LET NotInstalled(m) == m \notin st.mem.Modules
      \* `ref := opts.Ref`, else the manifest's version, else what
      \* GetLatestVersion gave sv
      RefOf(sv) == IF opts.Ref # "" THEN opts.Ref
                   ELSE IF st.mem.Version # "" THEN st.mem.Version
                   ELSE IF Latest(sv).ref = "" THEN DefaultRef
                   ELSE Latest(sv).ref
      Fetched(toInstall, s1) ==
        IF s1.err # "" THEN Err(s1, "fetch module")
        ELSE Save([s1 EXCEPT !.mem.Modules = @ \cup Range(toInstall)])
      Versioned(toInstall, sv) ==
        Fetched(toInstall,
                FetchModulePaths(sv, RefOf(sv), PathsOf(ModuleRegistry, toInstall), env))
      Install(toInstall) ==
        Versioned(toInstall, IF opts.Ref = "" /\ st.mem.Version = ""
                             THEN CallGetLatestVersion(st, env) ELSE st)
  IN IF ~st.disk.exists THEN Err(st, "not a manifesto project")
     ELSE IF opts.ModuleName \in st.mem.Modules THEN Err(st, "already installed")
     ELSE IF opts.ModuleName \notin DOMAIN ModuleRegistry THEN Err(st, "unknown module")
     ELSE Install(SelectSeq(ResolveDeps(ModuleRegistry, <<opts.ModuleName>>), NotInstalled))

-----------------------------------------------------------------------------
(* Inputs and bounds                                                       *)

\* operations per behaviour; InitProject counts one more for every module of
\* its wire list
MaxOps == 4
\* names per resolver request and dependencies per registry entry
MaxNames == 2
\* operations per behaviour when commands may fail and files may be deleted
MaxFaultOps == 3

\* config.CoreModules(quick): every Core module, without iam and migrations
\* for a quick project
CoreModules(quick) ==
  IF quick
  THEN <<"kernel", "errx", "logx", "ptrx", "asyncx", "config", "server",
         "fsx", "ai", "jobx", "notifx">>
  ELSE <<"kernel", "errx", "logx", "ptrx", "asyncx", "config", "server",
         "migrations", "iam", "fsx", "ai", "jobx", "notifx">>

\* sequences over S of length at most n
SeqUpTo(S, n) == UNION {[1..k -> S] : k \in 0..n}

TheGoModule == "github.com/me/myapp"
TheProjectName == "myapp"
TheRef == "v1.0.0"

InitOptions(modules, ref, wireModules) ==
  [ProjectName |-> TheProjectName, GoModule |-> TheGoModule,
   Modules |-> modules, Ref |-> ref, WireModules |-> wireModules]

ModuleArg(name) == [kind |-> "module", name |-> name]
DomainArg == [kind |-> "domain", path |-> "pkg/billing/invoice",
              pkg |-> "invoice", entity |-> "Invoice"]

\* an environment in which every download and every `go get` succeeds
FairWeather ==
  [failFetchAt |-> 0, goGet |-> TRUE, lookup |-> [status |-> "ok", tag |-> TheRef]]

-----------------------------------------------------------------------------
(* Actions                                                                 *)

Commit(op, arg, st, cost) ==
  /\ ops + cost <= MaxOps
  /\ dir' = st.dir
  /\ fs' = st.fs
  /\ sources' = st.sources
  /\ manifest' = st.disk
  /\ last' = [op |-> op, arg |-> arg, err |-> st.err, calls |-> st.calls,
              refs |-> st.refs, versions |-> st.versions]
  /\ ops' = ops + cost
  /\ UNCHANGED <<resolverVars, fetchVars, textVars, roundTripVars, spinnerVars>>

RunInit(opts, env) ==
  Commit("init", opts, InitProject(Begin, opts, env), 1 + Len(opts.WireModules))

RunAdd(arg, env) == Commit("add", arg, runAdd(Begin, arg, env), 1)

RunInstall(name, ref, env) ==
  Commit("install", name,
         InstallModule(Begin, [ModuleName |-> name, Ref |-> ref], env), 1)

NoCall == [op |-> "none", arg |-> <<>>, err |-> "", calls |-> <<>>,
           refs |-> <<>>, versions |-> <<>>]

ProjectStart ==
  /\ dir = FALSE
  /\ fs = NoFiles
  /\ sources = {}
  /\ manifest = NoManifest
  /\ last = NoCall
  /\ ops = 0

ResolverIdle ==
  /\ registry = ModuleRegistry
  /\ request = <<>>
  /\ resolved = [done |-> FALSE, result |-> <<>>]

\* no FetchModulePaths call on its own
NoFetch ==
  [paths |-> <<>>, goModuleOld |-> <<>>, goModuleNew |-> <<>>,
   done |-> FALSE, err |-> "", tree |-> <<>>]

FetchIdle ==
  /\ archive = <<>>
  /\ fetchCall = NoFetch

NotProcessed ==
  [n |-> 0, file |-> <<>>, once |-> <<>>, scanned |-> FALSE, inserted |-> <<>>]

TextIdle ==
  /\ content = <<>>
  /\ processed = NotProcessed

\* the zero value of config.Manifest
ZeroManifest ==
  [Project |-> [Name |-> "", GoModule |-> "", Version |-> ""],
   Modules |-> <<>>, WiredModules |-> <<>>, CreatedAt |-> 0, UpdatedAt |-> 0]

RoundTripIdle ==
  /\ clock = 0
  /\ manifestMem = [exists |-> FALSE, m |-> ZeroManifest]
  /\ manifestYaml = [exists |-> FALSE, doc |-> <<>>, original |-> ZeroManifest]
  /\ loaded = [done |-> FALSE, m |-> ZeroManifest]

\* ui.NewSpinner: the channel has no buffer, the mutex is free
NewSpinner(id) == [id |-> id, stopped |-> FALSE, mu |-> FALSE]

\* no function is running and no spinner was made
SpinnerIdle ==
  /\ program = [ops |-> <<>>, at |-> 1, code |-> FALSE]
  /\ caller = "ready"
  /\ spinner = NewSpinner(0)
  /\ routines = <<>>
  /\ shown = [sends |-> 0, returned |-> {}, late |-> {}]

\* the init and add commands in an environment without failures
Init ==
  ProjectStart /\ ResolverIdle /\ FetchIdle /\ TextIdle /\ RoundTripIdle /\ SpinnerIdle

InitCmd ==
  \E w \in SeqUpTo(WireableNames, MaxOps - 1) :
    /\ ops + 1 + Len(w) <= MaxOps
    /\ RunInit(InitOptions(CoreModules(FALSE), TheRef, w), FairWeather)

AddModuleCmd ==
  \E m \in WireableNames :
    /\ ops + 1 <= MaxOps
    /\ RunAdd(ModuleArg(m), FairWeather)

AddDomainCmd ==
  /\ ops + 1 <= MaxOps
  /\ RunAdd(DomainArg, FairWeather)

Next == InitCmd \/ AddModuleCmd \/ AddDomainCmd

Spec == Init /\ [][Next]_vars

-----------------------------------------------------------------------------
(* The same commands with their failures: downloads and `go get` runs that *)
(* fail, names no registry knows, module lists other than the full core     *)
(* list, InstallModule, and target files deleted between commands           *)

UnknownName == "ghost"

FetchFails(n) == [FairWeather EXCEPT !.failFetchAt = n]
GoGetFails == [FairWeather EXCEPT !.goGet = FALSE]
Weather == {FairWeather, FetchFails(1), FetchFails(2), GoGetFails}

\* the tag of the latest release, when the lookup finds one
LatestTag == "v2.0.0"

\* outcomes of the latest-release request: no connection, a status other
\* than 200, a body that is not the expected JSON, a release without tag
\* name, a release
Lookups ==
  {[status |-> "transport", tag |-> ""], [status |-> "http404", tag |-> ""],
   [status |-> "malformed", tag |-> ""], [status |-> "ok", tag |-> ""],
   [status |-> "ok", tag |-> LatestTag]}

LookupWeather == {[FairWeather EXCEPT !.lookup = l] : l \in Lookups}

\* opts.Modules of InitProject: the quick core list, a short list that leaves
\* most modules to be downloaded later, a list with a name not in the registry
ModuleLists == {CoreModules(TRUE), <<"kernel", "config", "server">>,
                <<"kernel", UnknownName>>}

\* InitProject's module list, --ref and environment: a given reference with
\* every module list and failure, no reference with every lookup outcome
InitInputs ==
  {<<mods, TheRef, env>> : mods \in ModuleLists, env \in Weather}
    \cup {<<(<<"kernel", "config", "server">>), "", env>> : env \in LookupWeather}

\* the lookup outcomes matter to a command only when the manifest pins no
\* version
LookupWeatherFor(m) == IF m.Version = "" THEN LookupWeather ELSE {}

InitAny ==
  \E input \in InitInputs :
    \E w \in SeqUpTo(WireableNames \cup {UnknownName}, MaxFaultOps - 1) :
      /\ ops + 1 + Len(w) <= MaxFaultOps
      /\ RunInit(InitOptions(input[1], input[2], w), input[3])

AddAny ==
  \E m \in WireableNames \cup {UnknownName},
     env \in Weather \cup LookupWeatherFor(manifest) :
    /\ ops + 1 <= MaxFaultOps
    /\ RunAdd(ModuleArg(m), env)

InstallAny ==
  \E name \in {"iam", "jobx", UnknownName}, ref \in {TheRef, ""},
     env \in {FairWeather, FetchFails(1)} \cup LookupWeatherFor(manifest) :
    /\ ops + 1 <= MaxFaultOps
    /\ RunInstall(name, ref, env)

\* somebody deletes one of the target files of the project
RemoveFile ==
  \E f \in TargetFiles :
    /\ fs[f].exists
    /\ ops + 1 <= MaxFaultOps
    /\ fs' = [fs EXCEPT ![f] = Absent]
    /\ last' = [NoCall EXCEPT !.op = "rm", !.arg = f]
    /\ ops' = ops + 1
    /\ UNCHANGED <<dir, sources, manifest>>
    /\ UNCHANGED <<resolverVars, fetchVars, textVars, roundTripVars, spinnerVars>>

\* somebody removes the pinned version from manifesto.yaml
ClearVersion ==
  /\ manifest.exists /\ manifest.Version # ""
  /\ ops + 1 <= MaxFaultOps
  /\ manifest' = [manifest EXCEPT !.Version = ""]
  /\ last' = [NoCall EXCEPT !.op = "edit"]
  /\ ops' = ops + 1
  /\ UNCHANGED <<dir, fs, sources>>
  /\ UNCHANGED <<resolverVars, fetchVars, textVars, roundTripVars, spinnerVars>>

NextFaults == InitAny \/ AddAny \/ InstallAny \/ RemoveFile \/ ClearVersion

SpecFaults == Init /\ [][NextFaults]_vars

-----------------------------------------------------------------------------
(* The resolver on its own: every registry over three module names whose   *)
(* entries declare up to MaxNames distinct dependencies, cyclic ones        *)
(* included, and every request of up to MaxNames names, one of them absent  *)
(* from the registry                                                        *)

ResolverNames == {"jobx", "asyncx", "errx"}

InjectiveSeqs(S, n) ==
  {q \in SeqUpTo(S, n) : \A i, j \in 1..Len(q) : i # j => q[i] # q[j]}

Registries ==
  {[n \in ResolverNames |-> Mod(<<"pkg/" \o n>>, d[n])] :
     d \in [ResolverNames -> InjectiveSeqs(ResolverNames, MaxNames)]}

InitResolve ==
  /\ registry \in Registries
  /\ request \in SeqUpTo(ResolverNames \cup {UnknownName}, MaxNames)
  /\ resolved = [done |-> FALSE, result |-> <<>>]
  /\ ProjectStart /\ FetchIdle /\ TextIdle /\ RoundTripIdle /\ SpinnerIdle

CallResolveDeps ==
  /\ ~resolved.done
  /\ resolved' = [done |-> TRUE, result |-> ResolveDeps(registry, request)]
  /\ UNCHANGED <<registry, request>>
  /\ UNCHANGED <<projectVars, fetchVars, textVars, roundTripVars, spinnerVars>>

NextResolve == CallResolveDeps

SpecResolve == InitResolve /\ [][NextResolve]_vars

\* n declares d, directly
Declares(reg, n, d) == n \in DOMAIN reg /\ d \in Range(reg[n].Deps)

\* the names reachable from the set S along declared dependencies
RECURSIVE Closure(_, _)
Closure(reg, S) ==
  LET T == S \cup {d \in DOMAIN reg : \E n \in S : Declares(reg, n, d)}
  IN IF T = S THEN S ELSE Closure(reg, T)

Acyclic(reg) ==
  \A n \in DOMAIN reg : n \notin Closure(reg, Range(reg[n].Deps))

NoDuplicates(q) == \A i, j \in 1..Len(q) : i # j => q[i] # q[j]

Pos(q, x) == CHOOSE i \in 1..Len(q) : q[i] = x

\* C1: over an acyclic registry ResolveDeps returns the requested names and
\* their transitive dependencies and nothing else, each once, every module
\* after all the dependencies it declares.
C1_ResolveTopological ==
  (resolved.done /\ Acyclic(registry)) =>
    LET r == resolved.result
    IN /\ Range(r) = Closure(registry, Range(request))
       /\ NoDuplicates(r)
       /\ \A n \in Range(r) : \A d \in Range(r) :
            Declares(registry, n, d) => Pos(r, d) < Pos(r, n)

C1_Witness ==
  /\ resolved.done
  /\ registry["jobx"].Deps = <<"asyncx">>
  /\ registry["asyncx"].Deps = <<>>
  /\ request = <<"jobx">>
  /\ resolved.result = <<"asyncx", "jobx">>

-----------------------------------------------------------------------------
(* Wiring: the vocabulary of the properties of WireModule                  *)

\* the registry entry of module m with the project's identifiers substituted
SpecOf(m) == replacePlaceholders(WireableModuleRegistry[m], TheGoModule, TheProjectName)

\* the fragments a wiring spec declares for a target file, as they appear in
\* the file once injected
Fragments(spec, f) ==
  CASE f = ConfigFile -> {spec.ConfigFields, spec.ConfigLoads}
    [] f = ContainerFile -> {spec.ContainerImports, spec.ContainerFields, spec.ModuleInit,
                             spec.BackgroundStart, spec.ContainerHelpers}
    [] f = ServerFile -> {spec.ServerImports, spec.PublicRoutes, spec.RouteRegistration,
                          spec.AuthMiddleware}
    [] f = MakefilePath -> {spec.MakefileEnv, tabPrefixLines(spec.MakefileEnvDisplay)}

\* module m declares at least one fragment for file f
DeclaresFor(m, f) == Fragments(SpecOf(m), f) # {<<>>}

\* the WireModule calls of the last operation, in order
Calls == last.calls
CallIds == 1..Len(last.calls)

\* C2: when WireModule(M) is called twice in succession, the second call
\* returns no error and leaves all four target files as the first call left
\* them.
C2_SecondWireChangesNothing ==
  \A i \in CallIds : \A j \in CallIds :
    (j = i + 1 /\ Calls[i].module = Calls[j].module /\ Calls[i].err = "") =>
      /\ Calls[j].err = ""
      /\ \A f \in TargetFiles : Calls[j].after[f] = Calls[i].after[f]

C2_Witness ==
  \E i \in CallIds : \E j \in CallIds :
    /\ j = i + 1
    /\ Calls[i].module = "iam" /\ Calls[j].module = "iam"
    /\ Calls[i].err = "" /\ Calls[j].err = ""
    /\ \A f \in TargetFiles : Calls[i].after[f] # Calls[i].before[f]
    /\ Calls[j].after = Calls[i].after

\* number of times the jobx/notifx bridge's registration line stands in
\* cmd/container.go
BridgeCount == Count(fs[ContainerFile].text, <<BridgeRegisterLine>>)

BothBridged == {"jobx", "notifx"} \subseteq Range(manifest.WiredModules)

\* C3: after any sequence of successful wirings on a fresh project the
\* jobx/notifx bridge line stands in container.go exactly once when both
\* modules are wired, whichever came first, and not at all otherwise.
C3_BridgeExactlyOnce ==
  manifest.exists => BridgeCount = (IF BothBridged THEN 1 ELSE 0)

C3_Witness ==
  /\ manifest.exists
  /\ \E i, j \in 1..Len(manifest.WiredModules) :
       i < j /\ manifest.WiredModules[i] = "notifx" /\ manifest.WiredModules[j] = "jobx"
  /\ last.op = "add"
  /\ BridgeCount = 1

\* C4: every marker token of a target file stands in it exactly once after
\* any sequence of insertions (module wiring, bridges, domain injection).
C4_MarkersStayOnce ==
  \A f \in TargetFiles :
    fs[f].exists => \A mk \in Markers(f) : Count(fs[f].text, <<mk>>) = 1

C4_Witness ==
  /\ {"iam", "notifx"} \subseteq Range(manifest.WiredModules)
  /\ last.op = "add" /\ last.arg = DomainArg /\ last.err = ""
  /\ \A f \in TargetFiles :
       fs[f].exists /\ \A mk \in Markers(f) : Count(fs[f].text, <<mk>>) = 1

\* C5: after each successful WireModule(M) every non-empty fragment M declares
\* is present in its target file, whichever modules were wired before.
C5_AllFragmentsPresent ==
  \A i \in CallIds :
    Calls[i].err = "" =>
      \A f \in TargetFiles :
        \A frag \in Fragments(SpecOf(Calls[i].module), f) \ {<<>>} :
          Calls[i].after[f].exists /\ Contains(Calls[i].after[f].text, frag)

\* C6: InitProject and InstallModule given a name that is not in
\* ModuleRegistry fail with an unknown-module error before any directory is
\* created, anything is downloaded or the manifest is written.
C6_UnknownModuleTouchesNothing ==
  [][(last'.op \in {"init", "install"} /\ last'.err = "unknown module") =>
       (dir' = dir /\ fs' = fs /\ sources' = sources /\ manifest' = manifest)]_vars

IsPrefix(p, q) == Len(p) <= Len(q) /\ SubSeq(q, 1, Len(p)) = p

\* C7: across init and add operations the manifest's wired list only grows
\* at its end and never holds a name twice, also when the wire list given
\* to init names a module more than once.
C7_WiredAppendOnlyNoDuplicates ==
  [][/\ IsPrefix(manifest.WiredModules, manifest'.WiredModules)
     /\ NoDuplicates(manifest'.WiredModules)]_vars

\* C8: whenever InitProject, InstallModule or the add flow has saved the
\* manifest, every installed module is a key of ModuleRegistry and every
\* wired module a key of WireableModuleRegistry.
C8_SavedNamesAreRegistered ==
  manifest.exists =>
    /\ manifest.Modules \subseteq DOMAIN ModuleRegistry
    /\ Range(manifest.WiredModules) \subseteq DOMAIN WireableModuleRegistry

C8_Witness ==
  /\ last.op = "install" /\ last.arg = "iam" /\ last.err = ""
  /\ "iam" \in manifest.Modules
  /\ manifest.WiredModules = <<"jobx">>

\* the calls of the last operation that found file f missing although the
\* module declares a fragment for it
MissingFor(f) == {i \in CallIds : DeclaresFor(Calls[i].module, f) /\ ~Calls[i].before[f].exists}

C10_UndeclaredSurfaceNotListed ==
  \A i \in CallIds :
    Calls[i].err = "" =>
      \A f \in TargetFiles :
        ~DeclaresFor(Calls[i].module, f) => f \notin Range(Calls[i].modified)

-----------------------------------------------------------------------------
(* FetchModulePaths on its own: every archive that starts with the wrapper  *)
(* directory, a name without wrapper directory and the repository's go.mod  *)
(* and goes on with a choice of further entries (directories, a source      *)
(* file, a README, a symbolic link, a directory whose name only starts like *)
(* a requested one), every file content of up to MaxContent pieces, several *)
(* prefix lists and target identifiers                                      *)

\* pieces per file content (the upstream identifier takes two)
MaxContent == 4

\* scaffold.ManifestoGoModule, cut before the repository name
ManifestoGoModule == <<"github.com/Abraxas-365/", "manifesto">>

Wrapper == "manifesto-main"

Entry(name, typeflag, text) == [Name |-> name, Typeflag |-> typeflag, Content |-> text]

\* the entries every archive starts with, with files of content c
FixedEntries(c) ==
  <<Entry(<<Wrapper, SLASH>>, "dir", <<>>),
    Entry(<<"pax_global_header">>, "reg", c),
    Entry(<<Wrapper, SLASH, "go", ".mod">>, "reg", c)>>

PrefixFsx == <<"pkg", SLASH, "fsx">>
PrefixFsxtra == <<"pkg", SLASH, "fsx", "tra">>

\* the end of a name that climbs out of pkg/fsx and one level further
EscapingTail == <<SLASH, "..", SLASH, "..", SLASH, "..", SLASH, "x">>

\* the entries an archive may hold besides, with files of content c
OptionalEntries(c) ==
  <<Entry(<<Wrapper, SLASH, "pkg", SLASH>>, "dir", <<>>),
    Entry(<<Wrapper, SLASH, "pkg", SLASH, "fsx", SLASH>>, "dir", <<>>),
    Entry(<<Wrapper, SLASH, "pkg", SLASH, "fsx", SLASH, "fsx", GoExt>>, "reg", c),
    Entry(<<Wrapper, SLASH, "pkg", SLASH, "fsx", SLASH, "README", ".md">>, "reg", c),
    Entry(<<Wrapper, SLASH, "pkg", SLASH, "fsx", SLASH, "latest">>, "symlink", <<>>),
    Entry(<<Wrapper, SLASH, "pkg", SLASH, "fsx", "tra", SLASH, "x", GoExt>>, "reg", c),
    Entry(<<Wrapper, SLASH>> \o PrefixFsx \o EscapingTail, "reg", c)>>

\* the sub-sequence of q at the positions in keep
RECURSIVE Pick(_, _, _)
Pick(q, keep, i) ==
  IF i > Len(q) THEN <<>>
  ELSE (IF i \in keep THEN <<q[i]>> ELSE <<>>) \o Pick(q, keep, i + 1)

Contents == SeqUpTo({"github.com/Abraxas-365/", "manifesto", "import "}, MaxContent)

Archives ==
  {FixedEntries(c) \o Pick(OptionalEntries(c), keep, 1) :
     c \in Contents, keep \in SUBSET (1..Len(OptionalEntries(<<>>)))}

PrefixLists == {<<>>, <<PrefixFsx>>, <<PrefixFsxtra, PrefixFsx>>}

\* goModuleNew: an unrelated module path, one that extends the upstream
\* path, one that is the end of it, and none
TargetIdentifiers ==
  {<<TheGoModule>>, ManifestoGoModule \o <<"-app">>, <<"manifesto">>, <<>>}

InitFetch ==
  /\ archive \in Archives
  /\ \E p \in PrefixLists, new \in TargetIdentifiers :
       fetchCall = [NoFetch EXCEPT !.paths = p, !.goModuleOld = ManifestoGoModule,
                                   !.goModuleNew = new]
  /\ ProjectStart /\ ResolverIdle /\ TextIdle /\ RoundTripIdle /\ SpinnerIdle

CallFetchModulePaths ==
  /\ ~fetchCall.done
  /\ \E downloaded \in BOOLEAN :
       LET Returned(r) == [fetchCall EXCEPT !.done = TRUE, !.err = r.err, !.tree = r.tree]
       IN fetchCall' = Returned(ExtractModulePaths(downloaded, archive, fetchCall.paths,
                                                   fetchCall.goModuleOld,
                                                   fetchCall.goModuleNew))
  /\ UNCHANGED archive
  /\ UNCHANGED <<resolverVars, projectVars, textVars, roundTripVars, spinnerVars>>

NextFetch == CallFetchModulePaths

SpecFetch == InitFetch /\ [][NextFetch]_vars

\* the path of archive entry i under the destination root, <<>> when the
\* entry has no wrapper directory or is the wrapper directory itself
RelPath(i) ==
  LET parts == SplitN2(archive[i].Name)
  IN IF Len(parts) < 2 THEN <<>> ELSE parts[2]

\* path p is prefix or lies under it in the tree
Under(p, prefix) ==
  \/ p = prefix
  \/ /\ Len(p) > Len(prefix) + 1
     /\ SubSeq(p, 1, Len(prefix)) = prefix
     /\ p[Len(prefix) + 1] = SLASH

\* a name without the separator that ends a directory entry's name
Trimmed(p) == IF p # <<>> /\ p[Len(p)] = SLASH THEN SubSeq(p, 1, Len(p) - 1) ELSE p

\* archive entry i is one FetchModulePaths was asked for: its name without
\* the wrapper directory is a prefix or a prefix, a separator and more
Requested(i) ==
  /\ RelPath(i) # <<>>
  /\ \E k \in 1..Len(fetchCall.paths) :
       Under(Trimmed(RelPath(i)), fetchCall.paths[k])

\* C11: after FetchModulePaths every file and every directory in the
\* destination was made for an archive entry whose path, without the wrapper
\* directory, is one of the prefixes or lies under one: it is that entry's
\* path or a directory above it.  No entry outside the prefixes is written,
\* also not one whose name merely starts with the characters of a prefix.
C11_OnlyRequestedEntriesWritten ==
  fetchCall.done =>
    /\ \A p \in DOMAIN fetchCall.tree :
         LET e == fetchCall.tree[p].entry
         IN /\ e \in 1..Len(archive)
            /\ Requested(e)
            /\ p \in Ancestry(Clean(RelPath(e)))
            /\ fetchCall.tree[p].kind = "file" =>
                 /\ p = Clean(RelPath(e))
                 /\ archive[e].Typeflag = "reg"
    /\ \A i \in 1..Len(archive) :
         ~Requested(i) =>
           /\ \A p \in DOMAIN fetchCall.tree : fetchCall.tree[p].entry # i
           /\ \A p \in DOMAIN fetchCall.tree :
                fetchCall.tree[p].kind = "file" => p # Clean(RelPath(i))

C11_Witness ==
  /\ fetchCall.done /\ fetchCall.err = ""
  /\ fetchCall.paths = <<PrefixFsx>>
  /\ \E i \in 1..Len(archive) : RelPath(i) = PrefixFsxtra \o <<SLASH, "x", GoExt>>
  /\ PrefixFsx \o <<SLASH, "fsx", GoExt>> \in DOMAIN fetchCall.tree
  /\ <<"pkg">> \in DOMAIN fetchCall.tree
  /\ \A p \in DOMAIN fetchCall.tree : ~HasPrefix(p, PrefixFsxtra)

\* the .go files FetchModulePaths wrote
GoFiles ==
  {p \in DOMAIN fetchCall.tree :
     fetchCall.tree[p].kind = "file" /\ HasSuffix(p, <<GoExt>>)}

Rewriting == fetchCall.goModuleOld # <<>> /\ fetchCall.goModuleNew # <<>>

\* new can bring old back into a text old was replaced in: it holds old, is
\* a part of old, or ends as old starts or starts as old ends
CanComplete(new, old) ==
  \/ Contains(new, old)
  \/ Contains(old, new)
  \/ \E k \in 1..(Len(old) - 1) :
       \/ HasSuffix(new, SubSeq(old, 1, k))
       \/ HasPrefix(new, SubSeq(old, Len(old) - k + 1, Len(old)))

\* C12 as stated: after FetchModulePaths with both identifiers given, no
\* written .go file holds the upstream identifier, whatever the target
\* identifier is.
C12_NoUpstreamIdentifierLeft ==
  (fetchCall.done /\ Rewriting) =>
    \A p \in GoFiles : ~Contains(fetchCall.tree[p].content, fetchCall.goModuleOld)

\* C12, amended: after FetchModulePaths with both identifiers given, no
\* written .go file holds the upstream identifier, provided the target
\* identifier cannot form it again (it does not hold the upstream identifier,
\* is no part of it, and neither ends as it starts nor starts as it ends).
C12_NoUpstreamIdentifierUnlessTargetFormsIt ==
  (fetchCall.done /\ Rewriting
     /\ ~CanComplete(fetchCall.goModuleNew, fetchCall.goModuleOld)) =>
    \A p \in GoFiles : ~Contains(fetchCall.tree[p].content, fetchCall.goModuleOld)

C12_Witness ==
  /\ fetchCall.done /\ fetchCall.err = ""
  /\ fetchCall.goModuleNew = <<TheGoModule>>
  /\ \E p \in GoFiles :
       /\ Count(archive[fetchCall.tree[p].entry].Content, ManifestoGoModule) = 2
       /\ Count(fetchCall.tree[p].content, <<TheGoModule>>) = 2
       /\ ~Contains(fetchCall.tree[p].content, ManifestoGoModule)

-----------------------------------------------------------------------------
(* Failures of the commands                                                 *)

\* C13: when an archive download fails during InitProject, be it the
\* download of the module list or that of a wired module's required
\* modules, the project directory InitProject created is gone when it
\* returns the error.
C13_FetchFailureRemovesDir ==
  (last.op = "init" /\ last.err \in {"fetch modules", "download deps"}) => ~dir

\* the latest-release lookup did not produce a tag
LookupFailed(lookup) == lookup.status # "ok" \/ lookup.tag = ""

\* C14: GetLatestVersion returns no error and a reference that is not empty
\* for every outcome of the lookup, the default branch name when the lookup
\* failed, and every download of every command asks for a reference that is
\* not empty.
C14_VersionResolutionNeverFails ==
  /\ \A i \in 1..Len(last.versions) :
       LET v == last.versions[i]
       IN /\ v.err = "" /\ v.ref # ""
          /\ v.ref = (IF LookupFailed(v.lookup) THEN DefaultRef ELSE v.lookup.tag)
  /\ \A i \in 1..Len(last.refs) : last.refs[i] # ""
  /\ (last.op \in {"init", "install"} /\ last.versions # <<>>) => last.refs # <<>>

C14_Witness ==
  /\ last.op = "add" /\ last.arg = ModuleArg("jobx") /\ last.err = ""
  /\ Len(last.versions) = 1
  /\ last.versions[1].lookup.status = "transport"
  /\ last.refs = <<DefaultRef>>
  /\ manifest.WiredModules = <<"jobx">>

\* C15: the add command for a module the manifest lists as wired returns
\* success, downloads nothing, calls no WireModule, and leaves every project
\* file and manifesto.yaml (wired list, installed modules, UpdatedAt) as they
\* were.
C15_AddWiredModuleIsNoOp ==
  [][(/\ last'.op = "add"
      /\ last'.arg.kind = "module"
      /\ last'.arg.name \in Range(manifest.WiredModules)) =>
       /\ last'.err = ""
       /\ last'.calls = <<>> /\ last'.refs = <<>> /\ last'.versions = <<>>
       /\ dir' = dir /\ fs' = fs /\ sources' = sources
       /\ manifest' = manifest]_vars

C15_Witness ==
  /\ last.op = "add" /\ last.arg = ModuleArg("notifx") /\ last.err = ""
  /\ last.calls = <<>>
  /\ manifest.WiredModules = <<"notifx">>
  /\ manifest.UpdatedAt < ops

\* the modules WireModule(m) needs in the tree: m's RequiredModules and
\* their dependencies, as far as they have remote paths
NeededBy(m) ==
  {n \in Range(ResolveDeps(ModuleRegistry, WireableModuleRegistry[m].RequiredModules)) :
     n \in DOMAIN ModuleRegistry /\ Len(ModuleRegistry[n].Paths) > 0}

\* C16: in the add flow and in InitProject's wiring loop WireModule(M) is
\* called only when every module M requires is fetched and in the manifest's
\* installed map; when that download fails WireModule(M) is not called and M
\* is not appended to the wired list.
C16_RequiredModulesBeforeWiring ==
  /\ \A i \in CallIds :
       \A n \in NeededBy(Calls[i].module) :
         /\ n \in Calls[i].installed
         /\ Range(ModuleRegistry[n].Paths) \subseteq Calls[i].sources
  /\ (last.op = "add" /\ last.err = "download") =>
       /\ Calls = <<>>
       /\ last.arg.name \notin Range(manifest.WiredModules)
  /\ (last.op = "init" /\ last.err = "download deps") =>
       /\ Len(Calls) < Len(last.arg.WireModules)
       /\ \A i \in CallIds : Calls[i].module = last.arg.WireModules[i] /\ Calls[i].err = ""
       /\ manifest.WiredModules = <<>>

C16_Witness ==
  /\ last.op = "add" /\ last.arg = ModuleArg("jobx") /\ last.err = ""
  /\ last.refs = <<TheRef>>
  /\ Len(Calls) = 1
  /\ {"jobx", "asyncx"} \subseteq Calls[1].installed
  /\ {"pkg/jobx", "pkg/asyncx"} \subseteq Calls[1].sources
  /\ {"jobx", "asyncx"} \subseteq manifest.Modules

\* the target files WireModule is through with when it returns the error
EarlierFiles(err) ==
  CASE err = "wire container" -> {ConfigFile}
    [] err = "wire server" -> {ConfigFile, ContainerFile}
    [] err \in {"wire makefile", "wire bridge", "install deps"} ->
         {ConfigFile, ContainerFile, ServerFile}
    [] OTHER -> {}

\* C18: when WireModule fails after it wrote to earlier target files, the
\* fragments written there stay (nothing is rolled back), the call returns
\* the error and no list of modified files, and the caller does not append
\* the module to the wired list.
C18_FailedWiringKeepsEarlierFragments ==
  \A i \in CallIds :
    Calls[i].err # "" =>
      /\ Calls[i].modified = <<>>
      /\ \A f \in EarlierFiles(Calls[i].err) :
           \A frag \in Fragments(SpecOf(Calls[i].module), f) \ {<<>>} :
             Calls[i].after[f].exists /\ Contains(Calls[i].after[f].text, frag)
      /\ last.op = "add" => Calls[i].module \notin Range(manifest.WiredModules)
      /\ last.op = "init" => manifest.WiredModules = <<>>

C18_Witness ==
  /\ last.op = "add" /\ last.arg = ModuleArg("iam") /\ last.err = "wire server"
  /\ Len(Calls) = 1 /\ Calls[1].modified = <<>>
  /\ ~Contains(Calls[1].before[ConfigFile].text, SpecOf("iam").ConfigFields)
  /\ Contains(fs[ConfigFile].text, SpecOf("iam").ConfigFields)
  /\ Contains(fs[ContainerFile].text, SpecOf("iam").ModuleInit)
  /\ "iam" \notin Range(manifest.WiredModules)

-----------------------------------------------------------------------------
(* The preparation of config.go on its own: PostProcessConfigFile run up   *)
(* to MaxRuns times on every text of up to MaxText pieces, and             *)
(* insertMarkerBeforeClosingBrace on the same text                          *)

MaxText == 5
MaxRuns == 3

\* the pieces of a config.go: the struct header, braces, the return
\* statement of Load and anything else
ConfigPieces == {"type Config struct ", OPEN, CLOSE, ReturnCfg, "x"}

InitText ==
  /\ content \in SeqUpTo(ConfigPieces, MaxText)
  /\ processed = NotProcessed
  /\ ProjectStart /\ ResolverIdle /\ FetchIdle /\ RoundTripIdle /\ SpinnerIdle

\* the project tree as far as the pass reads it
ConfigOnly(text) == [f \in {ConfigFile} |-> File(text)]

CallPostProcessConfigFile ==
  /\ processed.n < MaxRuns
  /\ LET Written(t) ==
           [processed EXCEPT !.n = @ + 1, !.file = t,
                             !.once = IF processed.n = 0 THEN t ELSE @]
     IN processed' =
          Written(PostProcessConfigFile(
                    ConfigOnly(IF processed.n = 0 THEN content ELSE processed.file)
                  ).fs[ConfigFile].text)
  /\ UNCHANGED content
  /\ UNCHANGED <<resolverVars, projectVars, fetchVars, roundTripVars, spinnerVars>>

CallInsertMarkerBeforeClosingBrace ==
  /\ ~processed.scanned
  /\ processed' =
       [processed EXCEPT !.scanned = TRUE,
                         !.inserted = insertMarkerBeforeClosingBrace(
                                        content, ConfigStructOpener, MkConfigFields)]
  /\ UNCHANGED content
  /\ UNCHANGED <<resolverVars, projectVars, fetchVars, roundTripVars, spinnerVars>>

NextText == CallPostProcessConfigFile \/ CallInsertMarkerBeforeClosingBrace

SpecText == InitText /\ [][NextText]_vars

\* C19: PostProcessConfigFile is idempotent for every config.go: a second
\* run and every later one leave the file as the first run left it, and
\* after any number of runs the config-fields marker and the config-loads
\* marker are each in the file at most once (also without the Config struct
\* opener but with `return cfg`).
C19_PostProcessIdempotent ==
  processed.n >= 1 =>
    /\ processed.file = processed.once
    /\ Count(processed.file, <<MkConfigFields>>) <= 1
    /\ Count(processed.file, <<MkConfigLoads>>) <= 1

\* the opening brace of the block named by the opener in content, 0 without
\* the opener
BlockOpen ==
  LET idx == Index(content, ConfigStructOpener)
  IN IF idx = 0 THEN 0 ELSE idx + Len(ConfigStructOpener) - 1

\* opening braces less closing braces of content from position a to b
Balance(a, b) ==
  Cardinality({p \in a..b : content[p] = OPEN})
    - Cardinality({p \in a..b : content[p] = CLOSE})

\* the positions after the block's opening brace where the braces since
\* that brace are balanced
Closers == {p \in (BlockOpen + 1)..Len(content) : Balance(BlockOpen, p) = 0}

\* C20: insertMarkerBeforeClosingBrace puts the marker line right before the
\* closing brace that matches the opening brace of the named block, nested
\* braces counted, and returns the text as it was when the opener is absent
\* or no closing brace matches.
C20_MarkerBeforeMatchingBrace ==
  processed.scanned =>
    IF BlockOpen = 0 \/ Closers = {} THEN processed.inserted = content
    ELSE LET close == CHOOSE p \in Closers : \A q \in Closers : p <= q
         IN /\ content[close] = CLOSE
            /\ processed.inserted =
                 SubSeq(content, 1, close - 1) \o <<TAB, MkConfigFields, NL>>
                   \o SubSeq(content, close, Len(content))

C20_Witness ==
  /\ processed.scanned
  /\ content = <<"type Config struct ", OPEN, OPEN, CLOSE, CLOSE>>
  /\ processed.inserted =
       <<"type Config struct ", OPEN, OPEN, CLOSE, TAB, MkConfigFields, NL, CLOSE>>

-----------------------------------------------------------------------------
(* manifesto.yaml on its own: NewManifest, the updates the commands make   *)
(* to the manifest in memory, Save and LoadManifest, with yaml.Marshal and *)
(* yaml.Unmarshal as the document they write and read                       *)

MaxClock == 2
MaxEntries == 2

\* project names and references, among them texts that YAML reads as
\* something other than a string when they stand unquoted
ManifestNames == {"app", "null"}
ManifestRefs == {"v1.0.0", "~"}
EntryNames == {"fsx", "jobx"}

\* the plain scalars YAML resolves to null
NullWords == {"", "~", "null", "Null", "NULL"}

\* a string written as a plain scalar whatever its text
StrPlain(s) == [style |-> "plain", value |-> s]

\* yaml.Marshal of a string: quoted when the plain text would not be read
\* back as this string
Str(s) == [style |-> IF s \in NullWords THEN "quoted" ELSE "plain", value |-> s]

\* yaml.Unmarshal of a scalar into a string field: null leaves the zero value
ParseStr(node) ==
  IF node.style = "plain" /\ node.value \in NullWords THEN "" ELSE node.value

\* yaml.Marshal of a time.Time: the RFC 3339 text of the wall-clock instant
TimeScalar(t) == [style |-> "plain", value |-> [rfc3339 |-> t]]

\* yaml.Unmarshal of a timestamp scalar into a time.Time
ParseTime(node) == node.value.rfc3339

\* yaml.Marshal(m): wired_modules is left out when the list is empty
Marshal(m) ==
  [project |-> [name |-> Str(m.Project.Name),
                go_module |-> Str(m.Project.GoModule),
                manifesto_version |-> Str(m.Project.Version)],
   modules |-> {<<Str(n), [version |-> Str(m.Modules[n].Version),
                           installed_at |-> TimeScalar(m.Modules[n].InstalledAt)]>> :
                  n \in DOMAIN m.Modules},
   wired_modules |-> IF Len(m.WiredModules) = 0 THEN [present |-> FALSE, items |-> <<>>]
                     ELSE [present |-> TRUE,
                           items |-> [i \in 1..Len(m.WiredModules) |->
                                        Str(m.WiredModules[i])]],
   created_at |-> TimeScalar(m.CreatedAt),
   updated_at |-> TimeScalar(m.UpdatedAt)]

\* yaml.Unmarshal(data, &m) into a zero Manifest
Unmarshal(doc) ==
  LET Pair(k) == CHOOSE p \in doc.modules : ParseStr(p[1]) = k
  IN [Project |-> [Name |-> ParseStr(doc.project.name),
                   GoModule |-> ParseStr(doc.project.go_module),
                   Version |-> ParseStr(doc.project.manifesto_version)],
      Modules |-> [k \in {ParseStr(p[1]) : p \in doc.modules} |->
                     [Version |-> ParseStr(Pair(k)[2].version),
                      InstalledAt |-> ParseTime(Pair(k)[2].installed_at)]],
      WiredModules |-> IF doc.wired_modules.present
                       THEN [i \in 1..Len(doc.wired_modules.items) |->
                               ParseStr(doc.wired_modules.items[i])]
                       ELSE ZeroManifest.WiredModules,
      CreatedAt |-> ParseTime(doc.created_at),
      UpdatedAt |-> ParseTime(doc.updated_at)]

NewManifest(name, goModule, version, now) ==
  [Project |-> [Name |-> name, GoModule |-> goModule, Version |-> version],
   Modules |-> <<>>, WiredModules |-> <<>>, CreatedAt |-> now, UpdatedAt |-> now]

InitManifest ==
  /\ RoundTripIdle
  /\ ProjectStart /\ ResolverIdle /\ FetchIdle /\ TextIdle /\ SpinnerIdle

\* time passes
Tick ==
  /\ clock < MaxClock
  /\ clock' = clock + 1
  /\ UNCHANGED <<manifestMem, manifestYaml, loaded>>
  /\ UNCHANGED <<resolverVars, projectVars, fetchVars, textVars, spinnerVars>>

CallNewManifest ==
  /\ ~manifestMem.exists
  /\ \E name \in ManifestNames, version \in ManifestRefs :
       manifestMem' = [exists |-> TRUE,
                       m |-> NewManifest(name, <<TheGoModule>>, version, clock)]
  /\ UNCHANGED <<clock, manifestYaml, loaded>>
  /\ UNCHANGED <<resolverVars, projectVars, fetchVars, textVars, spinnerVars>>

\* manifest.Modules[name] = config.ModuleConfig{Version: ref, InstalledAt: time.Now()}
SetModule ==
  /\ manifestMem.exists
  /\ \E n \in EntryNames, ref \in ManifestRefs :
       /\ n \notin DOMAIN manifestMem.m.Modules
       /\ manifestMem' =
            [manifestMem EXCEPT !.m.Modules =
               [k \in DOMAIN @ \cup {n} |->
                  IF k = n THEN [Version |-> ref, InstalledAt |-> clock] ELSE @[k]]]
  /\ UNCHANGED <<clock, manifestYaml, loaded>>
  /\ UNCHANGED <<resolverVars, projectVars, fetchVars, textVars, spinnerVars>>

\* manifest.WiredModules = append(manifest.WiredModules, name)
AppendWired ==
  /\ manifestMem.exists
  /\ Len(manifestMem.m.WiredModules) < MaxEntries
  /\ \E n \in EntryNames :
       manifestMem' = [manifestMem EXCEPT !.m.WiredModules = Append(@, n)]
  /\ UNCHANGED <<clock, manifestYaml, loaded>>
  /\ UNCHANGED <<resolverVars, projectVars, fetchVars, textVars, spinnerVars>>

\* Manifest.Save: sets UpdatedAt, then writes the marshalled manifest
CallSave ==
  /\ manifestMem.exists
  /\ LET Written(m) ==
           /\ manifestMem' = [manifestMem EXCEPT !.m = m]
           /\ manifestYaml' = [exists |-> TRUE, doc |-> Marshal(m),
                               original |-> manifestMem.m]
     IN Written([manifestMem.m EXCEPT !.UpdatedAt = clock])
  /\ loaded' = [done |-> FALSE, m |-> ZeroManifest]
  /\ UNCHANGED clock
  /\ UNCHANGED <<resolverVars, projectVars, fetchVars, textVars, spinnerVars>>

CallLoadManifest ==
  /\ manifestYaml.exists
  /\ loaded' = [done |-> TRUE, m |-> Unmarshal(manifestYaml.doc)]
  /\ UNCHANGED <<clock, manifestMem, manifestYaml>>
  /\ UNCHANGED <<resolverVars, projectVars, fetchVars, textVars, spinnerVars>>

NextManifest ==
  Tick \/ CallNewManifest \/ SetModule \/ AppendWired \/ CallSave \/ CallLoadManifest

SpecManifest == InitManifest /\ [][NextManifest]_vars

-----------------------------------------------------------------------------
(* The resolver on registries with cycles                                  *)

\* the call of ResolveDeps is not put off for ever
SpecResolveFair == SpecResolve /\ WF_vars(CallResolveDeps)

\* C21: ResolveDeps returns for every registry, one with a cycle among the
\* declared dependencies included, without an error, and its result holds
\* every requested name and every name reachable from one exactly once.
C21_ResolveTerminatesOnCycles ==
  /\ <>resolved.done
  /\ [](resolved.done =>
          /\ NoDuplicates(resolved.result)
          /\ Range(resolved.result) = Closure(registry, Range(request)))

C21_Witness ==
  /\ resolved.done
  /\ ~Acyclic(registry)
  /\ registry["jobx"].Deps = <<"asyncx">>
  /\ registry["asyncx"].Deps = <<"jobx">>
  /\ request = <<"jobx">>
  /\ resolved.result = <<"asyncx", "jobx">>

-----------------------------------------------------------------------------
(* The wiring registry across WireModule calls                             *)

\* C22: WireModule leaves config.WireableModuleRegistry as it was: after
\* every call every fragment of the registry, those of the modules' Bridges
\* included, still holds its placeholder text.
C22_RegistryUnchanged ==
  \A i \in CallIds : Calls[i].reg = WireableModuleRegistry

-----------------------------------------------------------------------------
(* Projects whose target files were edited: init, add, and an edit that     *)
(* takes a marker out of a target file, up to MaxEditOps operations         *)

MaxEditOps == 3

InitEdited ==
  \E w \in SeqUpTo(WireableNames, 1) :
    /\ ops + 1 + Len(w) <= MaxEditOps
    /\ RunInit(InitOptions(CoreModules(FALSE), TheRef, w), FairWeather)

AddEdited ==
  \E m \in WireableNames :
    /\ ops + 1 <= MaxEditOps
    /\ RunAdd(ModuleArg(m), FairWeather)

\* somebody deletes a marker comment from a target file
DropMarker ==
  \E f \in TargetFiles : \E mk \in Markers(f) :
    /\ fs[f].exists /\ Contains(fs[f].text, <<mk>>)
    /\ ops + 1 <= MaxEditOps
    /\ fs' = [fs EXCEPT ![f].text = Replace1(@, <<mk>>, <<>>)]
    /\ last' = [NoCall EXCEPT !.op = "edit", !.arg = mk]
    /\ ops' = ops + 1
    /\ UNCHANGED <<dir, sources, manifest>>
    /\ UNCHANGED <<resolverVars, fetchVars, textVars, roundTripVars, spinnerVars>>

NextEdits == InitEdited \/ AddEdited \/ DropMarker

SpecEdits == Init /\ [][NextEdits]_vars

\* the files whose injection steps fail on a missing file
SourceFiles == {ConfigFile, ContainerFile, ServerFile}

\* C23: a WireModule call that returns success has put every non-empty
\* fragment of the module into config.go, container.go and server.go, also
\* when the file lacks the marker of an extension point the module uses; so
\* after init and add no module is in the manifest's wired list while one of
\* its fragments is missing from these files.
C23_SuccessMeansFragmentsInSourceFiles ==
  /\ \A i \in CallIds :
       Calls[i].err = "" =>
         \A f \in SourceFiles :
           \A frag \in Fragments(SpecOf(Calls[i].module), f) \ {<<>>} :
             Calls[i].after[f].exists /\ Contains(Calls[i].after[f].text, frag)
  /\ last.op \in {"init", "add"} =>
       \A i \in 1..Len(manifest.WiredModules) :
         \A f \in SourceFiles :
           \A frag \in Fragments(SpecOf(manifest.WiredModules[i]), f) \ {<<>>} :
             fs[f].exists /\ Contains(fs[f].text, frag)

-----------------------------------------------------------------------------
(* The wired list on disk against the wirings made                         *)

\* C24: when an init or add operation returns, with or without an error,
\* every module whose WireModule call of that operation succeeded is in the
\* wired list of manifesto.yaml; when the k-th wiring of InitProject fails,
\* the k-1 modules wired before it are recorded.
C24_SuccessfulWiringsRecorded ==
  last.op \in {"init", "add"} =>
    \A i \in CallIds :
      Calls[i].err = "" =>
        manifest.exists /\ Calls[i].module \in Range(manifest.WiredModules)

-----------------------------------------------------------------------------
(* Wiring again after a failure: init and add without other failures, a     *)
(* generated file lost, and the file put back as generated after the add    *)
(* that failed for it; up to MaxRetryOps operations                         *)

MaxRetryOps == 4

\* the files generateProjectFiles writes, which an add can miss after
\* config.go was written
GeneratedFiles == {ContainerFile, ServerFile}

\* the file as InitProject generated it
Fresh(f, goModule) ==
  IF f = ContainerFile THEN ContainerTemplate(goModule) ELSE ServerTemplate(goModule)

\* the file whose absence made WireModule return err
MissedFile(err) == IF err = "wire container" THEN ContainerFile ELSE ServerFile

InitRetry ==
  \E w \in SeqUpTo(WireableNames, 1) :
    /\ ops + 1 + Len(w) <= MaxRetryOps
    /\ RunInit(InitOptions(CoreModules(FALSE), TheRef, w), FairWeather)

AddRetry ==
  \E m \in WireableNames :
    /\ ops + 1 <= MaxRetryOps
    /\ RunAdd(ModuleArg(m), FairWeather)

\* a generated file is lost from a project that has all its files
LoseFile ==
  \E f \in GeneratedFiles :
    /\ last.op \in {"init", "add"} /\ last.err = ""
    /\ \A g \in TargetFiles : fs[g].exists
    /\ ops < MaxRetryOps
    /\ fs' = [fs EXCEPT ![f] = Absent]
    /\ last' = [NoCall EXCEPT !.op = "rm", !.arg = f]
    /\ UNCHANGED <<dir, sources, manifest, ops>>
    /\ UNCHANGED <<resolverVars, fetchVars, textVars, roundTripVars, spinnerVars>>

\* after an add whose WireModule call failed for the lost file, the file is
\* put back as generated; `last` keeps the failed call and the add's argument
RestoreFile ==
  /\ last.op = "add" /\ Len(last.calls) = 1
  /\ last.calls[1].err \in {"wire container", "wire server"}
  /\ ~fs[MissedFile(last.calls[1].err)].exists
  /\ fs' = [fs EXCEPT ![MissedFile(last.calls[1].err)] =
                         File(Fresh(MissedFile(last.calls[1].err), manifest.GoModule))]
  /\ last' = [last EXCEPT !.op = "restore",
                          !.arg = [file |-> MissedFile(last.calls[1].err), retry |-> last.arg]]
  /\ UNCHANGED <<dir, sources, manifest, ops>>
  /\ UNCHANGED <<resolverVars, fetchVars, textVars, roundTripVars, spinnerVars>>

NextRetry == InitRetry \/ AddRetry \/ LoseFile \/ RestoreFile

SpecRetry == Init /\ [][NextRetry]_vars

\* one WireModule call for the failed call's module on the project the failed
\* call started from, with the missing file there as generated
Uninterrupted(failed, f) ==
  WireModule([failed.before EXCEPT ![f] = File(Fresh(f, manifest.GoModule))],
             WireableModuleRegistry,
             [ModuleName |-> failed.module, GoModule |-> manifest.GoModule,
              ProjectName |-> manifest.Name, WiredModules |-> failed.wired],
             TRUE)

\* C25: when WireModule(M) failed partway because a later target file was
\* missing and is called again after the file was put back as generated, the
\* second call succeeds and leaves the four target files as one
\* uninterrupted WireModule(M) on the same starting project leaves them.
C25_RetryEqualsUninterrupted ==
  [][(/\ last.op = "restore"
      /\ last'.op = "add"
      /\ last'.arg = last.arg.retry) =>
       /\ last'.err = ""
       /\ Len(last'.calls) = 1
       /\ last'.calls[1].err = ""
       /\ Uninterrupted(last.calls[1], last.arg.file).err = ""
       /\ fs' = Uninterrupted(last.calls[1], last.arg.file).fs]_vars

C25_Witness ==
  /\ last.op = "add" /\ last.arg = ModuleArg("iam") /\ last.err = ""
  /\ Len(last.calls) = 1
  /\ Contains(last.calls[1].before[ConfigFile].text, SpecOf("iam").ConfigFields)
  /\ ~Contains(last.calls[1].before[ServerFile].text, SpecOf("iam").PublicRoutes)
  /\ Count(fs[ConfigFile].text, SpecOf("iam").ConfigFields) = 1
  /\ Count(fs[ContainerFile].text, SpecOf("iam").ModuleInit) = 1
  /\ Count(fs[ServerFile].text, SpecOf("iam").PublicRoutes) = 1

-----------------------------------------------------------------------------
(* The order of the fragments in the target files                          *)

\* C26: once jobx and notifx are both wired, in either order, the bridge's
\* registration line stands in cmd/container.go after the dispatcher
\* construction of jobx and after the notification-service construction of
\* notifx, and before the module-init marker.
C26_BridgeAfterBothInits ==
  (manifest.exists /\ BothBridged) =>
    LET text == fs[ContainerFile].text
        bridge == Index(text, <<BridgeRegisterLine>>)
    IN /\ bridge # 0
       /\ Index(text, SpecOf("jobx").ModuleInit) \in 1..(bridge - 1)
       /\ Index(text, SpecOf("notifx").ModuleInit) \in 1..(bridge - 1)
       /\ bridge < Index(text, <<MkModuleInit>>)

C26_Witness ==
  /\ manifest.exists
  /\ manifest.WiredModules = <<"notifx", "jobx">>
  /\ last.op = "add" /\ last.arg = ModuleArg("jobx") /\ last.err = ""
  /\ Index(fs[ContainerFile].text, SpecOf("notifx").ModuleInit)
       < Index(fs[ContainerFile].text, SpecOf("jobx").ModuleInit)
  /\ Index(fs[ContainerFile].text, SpecOf("jobx").ModuleInit)
       < Index(fs[ContainerFile].text, <<BridgeRegisterLine>>)

\* the extension points: the file, the field of the wiring spec that holds
\* the fragment, the marker, and what the injection puts between the two
Point(file, field, sep, marker) ==
  [file |-> file, field |-> field, sep |-> sep, marker |-> marker]

ExtensionPoints ==
  {Point(ConfigFile, "ConfigFields", <<NL, TAB>>, MkConfigFields),
   Point(ConfigFile, "ConfigLoads", <<NL, TAB>>, MkConfigLoads),
   Point(ContainerFile, "ContainerImports", <<NL, TAB>>, MkContainerImports),
   Point(ContainerFile, "ContainerFields", <<NL, TAB>>, MkContainerFields),
   Point(ContainerFile, "ModuleInit", <<NL, NL, TAB>>, MkModuleInit),
   Point(ContainerFile, "BackgroundStart", <<NL, TAB>>, MkBackgroundStart),
   Point(ContainerFile, "ContainerHelpers", <<NL, NL>>, MkContainerHelpers),
   Point(ServerFile, "ServerImports", <<NL, TAB>>, MkServerImports),
   Point(ServerFile, "PublicRoutes", <<NL, NL, TAB>>, MkPublicRoutes),
   Point(ServerFile, "RouteRegistration", <<NL, NL, TAB>>, MkRouteRegistration),
   Point(MakefilePath, "MakefileEnv", <<NL, NL>>, MkEnvConfig),
   Point(MakefilePath, "MakefileEnvDisplay", <<NL, TAB>>, MkEnvDisplay)}

\* the fragment of module m for extension point p as it is written
FragmentAt(m, p) ==
  IF p.field = "MakefileEnvDisplay" THEN tabPrefixLines(SpecOf(m)[p.field])
  ELSE SpecOf(m)[p.field]

\* in the project's files the fragments of the wired modules stand in the
\* order of the wired list (a repeated name counts where it is first) at
\* each of the extension points ps
InWiringOrder(ps) ==
  \A i, j \in 1..Len(manifest.WiredModules) : \A p \in ps :
    (/\ i < j
     /\ \A k \in 1..(j - 1) : manifest.WiredModules[k] # manifest.WiredModules[j]
     /\ FragmentAt(manifest.WiredModules[i], p) # <<>>
     /\ FragmentAt(manifest.WiredModules[j], p) # <<>>) =>
      /\ Index(fs[p.file].text, FragmentAt(manifest.WiredModules[i], p)) # 0
      /\ Index(fs[p.file].text, FragmentAt(manifest.WiredModules[i], p))
           < Index(fs[p.file].text, FragmentAt(manifest.WiredModules[j], p))

\* the module of successful call k was not wired before the call
FirstWiring(k) == Calls[k].err = "" /\ Calls[k].module \notin Range(Calls[k].wired)

\* C27: fragments accumulate in wiring order at each extension point: when A
\* was wired before B and both declare a fragment for the point, A's
\* fragment stands before B's in the target file, and when B has been wired
\* its fragment stands immediately before the marker.
C27_FragmentsInWiringOrder ==
  (manifest.exists /\ last.op \in {"init", "add"} /\ last.err = "") =>
    /\ InWiringOrder(ExtensionPoints)
    /\ \A k \in CallIds : \A p \in ExtensionPoints :
         (FirstWiring(k) /\ FragmentAt(Calls[k].module, p) # <<>>) =>
           Contains(Calls[k].after[p.file].text,
                    FragmentAt(Calls[k].module, p) \o p.sep \o <<p.marker>>)

-----------------------------------------------------------------------------
\* C28: FetchModulePaths never creates or overwrites a file outside the
\* destination root, whatever the names of the archive's entries are, also
\* for a name with ".." elements behind a requested prefix such as
\* wrapper/pkg/fsx/../../../x: every path it writes is the destination
\* root or lies below it.
C28_NothingWrittenOutsideRoot ==
  fetchCall.done => \A p \in DOMAIN fetchCall.tree : ~OutsideRoot(p)

-----------------------------------------------------------------------------
\* C29: InitProject never deletes or modifies a project directory that was
\* there before the call.  Called for a directory that exists it returns the
\* error "directory ... already exists" and leaves the directory, its source
\* tree, its generated files and its manifest as they were, and it has made
\* no wiring call and no request; and an InitProject that ends with the
\* directory removed after a failed fetch was called when there was none,
\* so what it removes is the directory it made itself.
C29_ExistingDirectoryUntouched ==
  [][last'.op = "init" =>
       /\ dir =>
            /\ last'.err = "directory already exists"
            /\ dir' /\ fs' = fs /\ sources' = sources /\ manifest' = manifest
            /\ last'.calls = <<>> /\ last'.refs = <<>> /\ last'.versions = <<>>
       /\ last'.err = "fetch modules" => ~dir /\ ~dir']_vars

\* an init of a wired project's directory has returned the error
C29_Witness ==
  /\ last.op = "init" /\ last.err = "directory already exists"
  /\ dir /\ sources # {} /\ fs[ContainerFile].exists
  /\ manifest.exists /\ manifest.WiredModules # <<>>

-----------------------------------------------------------------------------
(* ui.Spinner.  The calling goroutine runs the spinner calls of one path    *)
(* through InitProject, InstallModule or the add flow, or a short sequence  *)
(* of Start and Stop calls on one spinner, while the goroutines that Start  *)
(* has launched print frames                                                *)

\* calls in a free sequence of Start and Stop
MaxCalls == 4

\* modules wired by one InitProject
MaxWired == 2

\* len(frames)
NumFrames == 10

Op(op, success) == [op |-> op, success |-> success]

\* a step of a function: one that runs between spin.Start() and the
\* spin.Stop(..) of a spinner made for it, and one without spinner
Spin(name) == [name |-> name, spin |-> TRUE]
Plain(name) == [name |-> name, spin |-> FALSE]

RECURSIVE Repeat(_, _)
Repeat(q, n) == IF n = 0 THEN <<>> ELSE q \o Repeat(q, n - 1)

\* InitProject wiring n modules, with and without paths to fetch
InitProjectSteps(fetching, n) ==
  <<Plain("stat"), Plain("mkdir"), Plain("registry")>>
    \o (IF fetching THEN <<Spin("Downloading manifesto")>> ELSE <<>>)
    \o <<Spin("Creating go.mod"), Spin("Generating project files"),
         Plain("post-process config.go"), Spin("Writing manifesto.yaml")>>
    \o Repeat(<<Plain("registry"), Plain("download deps"), Spin("Wiring")>>, n)
    \o <<Plain("save")>>

InstallModuleSteps ==
  <<Plain("load"), Plain("installed"), Plain("registry"), Spin("Installing"),
    Plain("save")>>

\* runWireModule for a module with and without RequiredModules
runWireModuleSteps(required) ==
  <<Plain("wired")>>
    \o (IF required THEN <<Spin("Downloading")>> ELSE <<>>)
    \o <<Spin("Wiring"), Plain("save")>>

runAddDomainSteps == <<Spin("Scaffolding")>>

\* the spinner calls of a function that returns at step returnAt (0: at its
\* end): a step with a spinner makes it, starts it, and stops it with false
\* where the function returns on the step's error, with true otherwise
RECURSIVE SpinnerCalls(_, _, _)
SpinnerCalls(steps, returnAt, k) ==
  IF k > Len(steps) THEN <<>>
  ELSE (IF steps[k].spin
        THEN <<Op("new", TRUE), Op("start", TRUE), Op("stop", k # returnAt)>>
        ELSE <<>>)
       \o (IF k = returnAt THEN <<>> ELSE SpinnerCalls(steps, returnAt, k + 1))

Functions ==
  {InitProjectSteps(f, n) : f \in BOOLEAN, n \in 0..MaxWired}
    \cup {InstallModuleSteps, runAddDomainSteps}
    \cup {runWireModuleSteps(r) : r \in BOOLEAN}

CodePaths ==
  UNION {{SpinnerCalls(f, r, 1) : r \in 0..Len(f)} : f \in Functions}

\* any calls on one spinner
FreeSequences ==
  {<<Op("new", TRUE)>> \o q :
     q \in SeqUpTo({Op("start", TRUE), Op("stop", TRUE), Op("stop", FALSE)}, MaxCalls)}

Programs ==
  {[ops |-> q, at |-> 1, code |-> TRUE] : q \in CodePaths}
    \cup {[ops |-> q, at |-> 1, code |-> FALSE] : q \in FreeSequences}

InitSpinner ==
  /\ program \in Programs
  /\ caller = "ready"
  /\ spinner = NewSpinner(0)
  /\ routines = <<>>
  /\ shown = [sends |-> 0, returned |-> {}, late |-> {}]
  /\ ProjectStart /\ ResolverIdle /\ FetchIdle /\ TextIdle /\ RoundTripIdle

\* the calling goroutine is about to make the call op
Pending(op) ==
  /\ caller = "ready"
  /\ program.at <= Len(program.ops)
  /\ program.ops[program.at].op = op

Returned == [program EXCEPT !.at = @ + 1]

Idle == UNCHANGED <<resolverVars, projectVars, fetchVars, textVars, roundTripVars>>

CallNewSpinner ==
  /\ Pending("new")
  /\ spinner' = NewSpinner(spinner.id + 1)
  /\ program' = Returned
  /\ UNCHANGED <<caller, routines, shown>>
  /\ Idle

\* Spinner.Start: `go func() { i := 0; for { select ...`
Start ==
  /\ Pending("start")
  /\ routines' = Append(routines, [spinner |-> spinner.id, pc |-> "select", i |-> 0])
  /\ program' = Returned
  /\ UNCHANGED <<caller, spinner, shown>>
  /\ Idle

\* Spinner.Stop: s.mu.Lock()
StopLock ==
  /\ Pending("stop")
  /\ ~spinner.mu
  /\ spinner' = [spinner EXCEPT !.mu = TRUE]
  /\ caller' = "locked"
  /\ UNCHANGED <<program, routines, shown>>
  /\ Idle

\* a Stop that never finds the spinner stopped
StoppedNever(s) == FALSE

\* `if s.stopped`
Stopped(s) == s.stopped

\* Spinner.Stop: `if s.stopped { return }`, with the deferred Unlock, or
\* `s.stopped = true` and on to the send
StopCheck ==
  /\ caller = "locked"
  /\ IF Stopped(spinner)
     THEN /\ spinner' = [spinner EXCEPT !.mu = FALSE]
          /\ caller' = "ready"
          /\ program' = Returned
     ELSE /\ spinner' = [spinner EXCEPT !.stopped = TRUE]
          /\ caller' = "send"
          /\ UNCHANGED program
  /\ UNCHANGED <<routines, shown>>
  /\ Idle

\* `case <-s.done` of goroutine g can proceed: a sender waits on the
\* channel of g's spinner
DoneReady(g) == caller = "send" /\ routines[g].spinner = spinner.id

\* `s.done <- true` meets `case <-s.done: return` of goroutine g
Receive(g) ==
  /\ routines[g].pc = "select"
  /\ DoneReady(g)
  /\ routines' = [routines EXCEPT ![g] = [@ EXCEPT !.pc = "returned", !.i = 0]]
  /\ caller' = "clear"
  /\ shown' = [shown EXCEPT !.sends = @ + 1]
  /\ UNCHANGED <<program, spinner>>
  /\ Idle

\* the `default` case of goroutine g: print frames[i % len(frames)], sleep,
\* i++
Frame(g) ==
  /\ routines[g].pc = "select"
  /\ ~DoneReady(g)
  /\ routines' = [routines EXCEPT ![g] = [@ EXCEPT !.i = (@ + 1) % NumFrames]]
  /\ shown' = [shown EXCEPT !.late =
                 IF routines[g].spinner \in shown.returned
                 THEN @ \cup {routines[g].spinner} ELSE @]
  /\ UNCHANGED <<program, caller, spinner>>
  /\ Idle

\* Spinner.Stop after the send: clear the line, print the result, unlock
StopPrint ==
  /\ caller = "clear"
  /\ spinner' = [spinner EXCEPT !.mu = FALSE]
  /\ caller' = "ready"
  /\ program' = Returned
  /\ shown' = [shown EXCEPT !.returned = @ \cup {spinner.id}]
  /\ UNCHANGED routines
  /\ Idle

SomeReceive == \E g \in DOMAIN routines : Receive(g)
SomeFrame == \E g \in DOMAIN routines : Frame(g)
Caller == CallNewSpinner \/ Start \/ StopLock \/ StopCheck \/ StopPrint

NextSpinner == Caller \/ SomeReceive \/ SomeFrame

SpecSpinner == InitSpinner /\ [][NextSpinner]_vars

\* the calling goroutine runs when it can, and a goroutine that a sender
\* waits for gets to its select
SpecSpinnerFair == SpecSpinner /\ WF_vars(Caller) /\ WF_vars(SomeReceive)

\* the goroutines launched by Start on spinner id
RoutinesOf(id) == {g \in DOMAIN routines : routines[g].spinner = id}

InStop == caller \in {"locked", "send", "clear"}

Finished == caller = "ready" /\ program.at > Len(program.ops)

\* C30: for a spinner on which Start was called, Stop always terminates;
\* once a Stop has returned after its send, the goroutine of a spinner
\* started once has taken the stop signal, has returned and has printed no
\* frame since; a Stop on a stopped spinner sends nothing and returns with
\* its next step; a Stop on a spinner that was never started stays blocked in its
\* send; and on every path through InitProject, InstallModule and the add
\* flow each Stop is on a spinner started once before, the path comes to its
\* end, and at its end every goroutine it started has returned.
C30_SpinnerStops ==
  /\ (InStop /\ RoutinesOf(spinner.id) # {}) ~> (caller = "ready")
  /\ [](\A id \in shown.returned :
          Cardinality(RoutinesOf(id)) = 1 =>
            /\ \A g \in RoutinesOf(id) : routines[g].pc = "returned"
            /\ id \notin shown.late)
  /\ [][(caller = "locked" /\ spinner.stopped) =>
          /\ shown'.sends = shown.sends
          /\ caller' # caller =>
               /\ caller' = "ready" /\ program'.at = program.at + 1
               /\ ~spinner'.mu /\ shown' = shown /\ routines' = routines]_vars
  /\ [][(caller = "send" /\ RoutinesOf(spinner.id) = {}) =>
          caller' = "send" /\ program' = program]_vars
  /\ [](program.code =>
          /\ InStop => Cardinality(RoutinesOf(spinner.id)) = 1
          /\ Finished => \A g \in DOMAIN routines : routines[g].pc = "returned")
  /\ (program.code => <>Finished)

\* Start, Stop and a second Stop on one spinner have returned
C30_Witness ==
  /\ program.ops = <<Op("new", TRUE), Op("start", TRUE), Op("stop", TRUE), Op("stop", FALSE)>>
  /\ Finished
  /\ shown.sends = 1 /\ shown.returned = {1} /\ shown.late = {}
  /\ routines = <<[spinner |-> 1, pc |-> "returned", i |-> 0]>>

=============================================================================
